---- MODULE Spec2Model ----
(***************************************************************************)
(* Resume analysis tools of DeepAgents101: read_resume,                    *)
(* extract_information, generate_summary, calculate_experience_years,      *)
(* match_job_requirements and suggest_improvements, as defined in          *)
(* src/scripts/resume_tools.py (module "tools", markdown reports) and in   *)
(* src/Resume-Analyst-Agent.py (module "agent", plain-text reports).       *)
(*                                                                         *)
(* Text is modelled by TLA+ strings, character by character.  A JSON text  *)
(* is modelled by the JSON value it encodes (JsonText(v)); any other text  *)
(* is Str(s).  JSON values are tagged records (JS, JL, JO, JN, JNull).     *)
(*                                                                         *)
(* The Analyze handler of the Streamlit app, main() of                     *)
(* src/Pro-Resume-Analyst-App.py, is modelled statement group by statement *)
(* group (specification AppSpec).                                          *)
(***************************************************************************)
EXTENDS Integers, Sequences, FiniteSets, TLC

VARIABLES
    resume_content,    \* extract_information: its argument
    pc,                \* extract_information: "idle" | "walk" | "done"
    lines,             \* extract_information: resume_content.split('\n')
    idx,               \* extract_information: position of the line walk
    current_section,   \* extract_information: local current_section
    section_content,   \* extract_information: local section_content
    extracted_data,    \* extract_information: local extracted_data
    calls,             \* number of extract_information calls completed
    first_result,      \* what the first completed call returned
    op,                \* tool calls: the operation called, "" when none
    mod,               \* tool calls: the module it was called in
    arg,               \* tool calls: its argument(s)
    ret,               \* tool calls: what it did (returned or raised)
    uploaded_file,     \* app: value of the file_uploader widget
    session_state,     \* app: st.session_state
    tmp_path,          \* app: local tmp_path of the Analyze handler
    result,            \* app: local result of the Analyze handler
    step,              \* app: position in main()
    files,             \* app: the temporary files that exist
    analysed,          \* app: names of the uploads of the Analyze clicks so far
    displayed          \* app: what the results column displays

vars == <<resume_content, pc, lines, idx, current_section, section_content,
          extracted_data, calls, first_result, op, mod, arg, ret,
          uploaded_file, session_state, tmp_path, result, step, files,
          analysed, displayed>>

extractVars == <<resume_content, pc, lines, idx, current_section,
                 section_content, extracted_data, calls, first_result>>

toolVars == <<op, mod, arg, ret>>

appVars == <<uploaded_file, session_state, tmp_path, result, step, files,
             analysed, displayed>>

(***************************************************************************)
(* Bounds of the model.                                                    *)
(***************************************************************************)
MaxLines == 3
MaxCalls == 2
MaxPermuted == 4

(***************************************************************************)
(* Strings.                                                                *)
(***************************************************************************)
UpperLetters == "ABCDEFGHIJKLMNOPQRSTUVWXYZ"
LowerLetters == "abcdefghijklmnopqrstuvwxyz"
Digits == "0123456789"
Whitespace == " \t\n\r"

\* s[i-1] of Python's indexing, "" outside the string
CharAt(s, i) == IF i < 1 \/ i > Len(s) THEN "" ELSE SubSeq(s, i, i)

\* s[a-1:b] of Python's slicing
Slice(s, a, b) ==
    LET lo == IF a < 1 THEN 1 ELSE a
        hi == IF b > Len(s) THEN Len(s) ELSE b
    IN  IF lo > hi THEN "" ELSE SubSeq(s, lo, hi)

\* the characters of a string, as a set
CharsOf(s) == {SubSeq(s, i, i) : i \in 1..Len(s)}

InStr(c, s) == \E i \in 1..Len(s) : CharAt(s, i) = c

IndexIn(c, s) == CHOOSE i \in 1..Len(s) : CharAt(s, i) = c

UpperSet == CharsOf(UpperLetters)
LetterSet == CharsOf(UpperLetters \o LowerLetters)
DigitSet == CharsOf(Digits)
WhitespaceSet == CharsOf(Whitespace)

IsDigit(c) == c \in DigitSet

IsLetter(c) == c \in LetterSet

\* \w of the re module, on the characters the model uses
IsWord(c) == IsLetter(c) \/ IsDigit(c) \/ c = "_"

LowerChar(c) ==
    IF c \in UpperSet THEN CharAt(LowerLetters, IndexIn(c, UpperLetters))
    ELSE c

\* str.lower(), by halves
RECURSIVE Lower(_)
Lower(s) ==
    IF Len(s) = 0 THEN ""
    ELSE IF Len(s) = 1 THEN LowerChar(s)
    ELSE LET h == Len(s) \div 2
         IN  Lower(SubSeq(s, 1, h)) \o Lower(SubSeq(s, h + 1, Len(s)))

IsBlank(s) == \A i \in 1..Len(s) : CharAt(s, i) \in WhitespaceSet

Strip(s) ==
    IF IsBlank(s) THEN ""
    ELSE LET solid == {i \in 1..Len(s) : CharAt(s, i) \notin WhitespaceSet}
             lo == CHOOSE i \in solid : \A j \in solid : i <= j
             hi == CHOOSE i \in solid : \A j \in solid : j <= i
         IN  SubSeq(s, lo, hi)

\* Python's `k in s` on strings
Contains(s, k) ==
    \E i \in 1..(Len(s) - Len(k) + 1) : SubSeq(s, i, i + Len(k) - 1) = k

StartsWith(s, p) == Len(p) <= Len(s) /\ SubSeq(s, 1, Len(p)) = p

RECURSIVE Split(_, _)
Split(s, sep) ==
    IF ~InStr(sep, s) THEN <<s>>
    ELSE LET k == CHOOSE i \in 1..Len(s) :
                      /\ CharAt(s, i) = sep
                      /\ \A j \in 1..(i - 1) : CharAt(s, j) # sep
         IN  <<SubSeq(s, 1, k - 1)>> \o Split(SubSeq(s, k + 1, Len(s)), sep)

RECURSIVE Join(_, _)
Join(parts, sep) ==
    IF parts = <<>> THEN ""
    ELSE IF Len(parts) = 1 THEN parts[1]
    ELSE parts[1] \o sep \o Join(Tail(parts), sep)

RECURSIVE ToInt(_)
ToInt(s) ==
    IF s = "" THEN 0
    ELSE 10 * ToInt(SubSeq(s, 1, Len(s) - 1)) + (IndexIn(CharAt(s, Len(s)), Digits) - 1)

Max(S) == CHOOSE x \in S : \A y \in S : y <= x
Min(S) == CHOOSE x \in S : \A y \in S : x <= y

(***************************************************************************)
(* Regular expressions of the tools, matched as re does: leftmost start,   *)
(* greedy quantifiers with backtracking, non-overlapping findall.          *)
(***************************************************************************)
IsWordAt(s, i) == i >= 1 /\ i <= Len(s) /\ IsWord(CharAt(s, i))

\* \b between positions i-1 and i
Boundary(s, i) == IsWordAt(s, i - 1) # IsWordAt(s, i)

\* the last position of the run of characters of the set cls that starts at i
\* (i - 1 when s[i] is not in cls)
RunEnd(s, i, cls) ==
    Min({Len(s) + 1} \cup {j \in i..Len(s) : CharAt(s, j) \notin cls}) - 1

EmailLocalChars == CharsOf(UpperLetters \o LowerLetters \o Digits \o "._%+-")
EmailDomainChars == CharsOf(UpperLetters \o LowerLetters \o Digits \o ".-")
EmailTldChars == CharsOf(UpperLetters \o "|" \o LowerLetters)

\* email_pattern = r'\b[A-Za-z0-9._%+-]+@[A-Za-z0-9.-]+\.[A-Z|a-z]{2,}\b'
\* the end of the match that starts at i, 0 when there is none
EmailMatchEnd(s, i) ==
    LET r == RunEnd(s, i, EmailLocalChars)
        dEnd == RunEnd(s, r + 2, EmailDomainChars)
        \* <<j, k>>: the domain ends at j, the match at k
        ends == {jk \in ((r + 2)..dEnd) \X ((r + 5)..Len(s)) :
                    /\ CharAt(s, jk[1] + 1) = "."
                    /\ jk[2] >= jk[1] + 3
                    /\ jk[2] <= RunEnd(s, jk[1] + 2, EmailTldChars)
                    /\ Boundary(s, jk[2] + 1)}
        j == Max({jk[1] : jk \in ends})
    IN  IF \/ CharAt(s, i) \notin EmailLocalChars
           \/ ~Boundary(s, i)
           \/ CharAt(s, r + 1) # "@"
           \/ ends = {}
        THEN 0
        ELSE Max({jk[2] : jk \in {e \in ends : e[1] = j}})

PhoneBodyChars == CharsOf(Digits \o " .-()")
PhoneOpenChars == CharsOf("+(")
PhoneFirstDigits == CharsOf("123456789")

\* phone_pattern = r'[\+\(]?[1-9][0-9 .\-\(\)]{8,}[0-9]'
PhoneMatchEnd(s, i) ==
    LET b == IF CharAt(s, i) \in PhoneOpenChars THEN i + 1 ELSE i
        rEnd == RunEnd(s, b + 1, PhoneBodyChars)
        ends == {e \in (b + 9)..rEnd : IsDigit(CharAt(s, e))}
    IN  IF CharAt(s, b) \notin PhoneFirstDigits \/ ends = {} THEN 0
        ELSE Max(ends)

LinkedinPrefix == "linkedin.com/in/"
LinkedinHandleChars == CharsOf(UpperLetters \o LowerLetters \o Digits \o "_-")

\* linkedin_pattern = r'linkedin\.com/in/[\w-]+'
LinkedinMatchEnd(s, i) ==
    LET h == i + Len(LinkedinPrefix)
        rEnd == RunEnd(s, h, LinkedinHandleChars)
    IN  IF Slice(s, i, h - 1) # LinkedinPrefix \/ rEnd < h THEN 0 ELSE rEnd

MatchEnd(pat, s, i) ==
    CASE pat = "email" -> EmailMatchEnd(s, i)
      [] pat = "phone" -> PhoneMatchEnd(s, i)
      [] pat = "linkedin" -> LinkedinMatchEnd(s, i)

\* the matches of a scan that resumes at position i: each starts at the
\* first position, from where the scan stands, where the pattern matches,
\* and the scan resumes after its end
RECURSIVE FindAllFrom(_, _, _, _)
FindAllFrom(pat, s, starts, i) ==
    LET rest == {j \in starts : j >= i}
    IN  IF rest = {} THEN <<>>
        ELSE LET b == Min(rest)
                 e == MatchEnd(pat, s, b)
             IN  <<SubSeq(s, b, e)>> \o FindAllFrom(pat, s, starts, e + 1)

\* re.findall(pattern, s) for a pattern without groups: the matched texts
FindAll(pat, s) ==
    FindAllFrom(pat, s, {i \in 1..Len(s) : MatchEnd(pat, s, i) # 0}, 1)

\* year_pattern = r'\b(19|20)\d{2}\b'
YearMatchAt(s, i) ==
    /\ i + 3 <= Len(s)
    /\ Slice(s, i, i + 1) \in {"19", "20"}
    /\ IsDigit(CharAt(s, i + 2))
    /\ IsDigit(CharAt(s, i + 3))
    /\ Boundary(s, i)
    /\ Boundary(s, i + 4)

\* re.findall(year_pattern, s): the pattern has one group, so findall returns
\* the text of the group (19|20) of each match, not the text of the match
RECURSIVE FindYearsFrom(_, _, _)
FindYearsFrom(s, starts, i) ==
    LET rest == {j \in starts : j >= i}
    IN  IF rest = {} THEN <<>>
        ELSE LET b == Min(rest)
             IN  <<SubSeq(s, b, b + 1)>> \o FindYearsFrom(s, starts, b + 4)

FindYears(s) == FindYearsFrom(s, {i \in 1..Len(s) : YearMatchAt(s, i)}, 1)

(***************************************************************************)
(* extract_information: the fields found before the line walk.             *)
(***************************************************************************)
\* a slip of emails[0]: emails[-1]
LastOrEmpty(matches) == IF matches # <<>> THEN matches[Len(matches)] ELSE ""

FirstOrEmpty(matches) == IF matches # <<>> THEN matches[1] ELSE ""

\* emails[0], phones[0].strip(), linkedin[0] of the matches found
ExtractContact(content) ==
    [email |-> FirstOrEmpty(FindAll("email", content)),
     phone |-> Strip(FirstOrEmpty(FindAll("phone", content))),
     linkedin |-> FirstOrEmpty(FindAll("linkedin", Lower(content))),
     location |-> ""]

NameScanLines == 5
NameMaxLen == 50

NameCandidate(line) ==
    /\ line # ""
    /\ Len(line) < NameMaxLen
    /\ ~\E i \in 1..Len(line) : IsDigit(CharAt(line, i))
    /\ ~Contains(line, "@")
    /\ ~Contains(Lower(line), "http")

\* for line in lines[:5]: the first stripped line that qualifies
ExtractName(ls) ==
    LET head == 1..Min({NameScanLines, Len(ls)})
        ok == {i \in head : NameCandidate(Strip(ls[i]))}
    IN  IF ok = {} THEN "" ELSE Strip(ls[Min(ok)])

\* a slip of the fresh dict: one dict kept from call to call
StaleData(content) ==
    IF calls = 0
    THEN [name |-> ExtractName(Split(content, "\n")),
          contact |-> ExtractContact(content),
          summary |-> "", experience |-> <<>>, skills |-> <<>>,
          education |-> <<>>, certifications |-> <<>>, languages |-> <<>>]
    ELSE [extracted_data EXCEPT !.name = ExtractName(Split(content, "\n")),
                                !.contact = ExtractContact(content)]

\* extracted_data as it is when the line walk starts
InitialData(content) ==
    [name |-> ExtractName(Split(content, "\n")),
     contact |-> ExtractContact(content),
     summary |-> "",
     experience |-> <<>>,
     skills |-> <<>>,
     education |-> <<>>,
     certifications |-> <<>>,
     languages |-> <<>>]

(***************************************************************************)
(* extract_information: the line walk.  A walk state is                    *)
(* [data, cur, buf]: extracted_data, current_section, section_content.     *)
(***************************************************************************)
ExperienceKeywords == {"experience", "work history", "employment"}
EducationKeywords == {"education", "academic"}
SkillsKeywords == {"skills", "technical skills", "competencies"}
SummaryKeywords == {"summary", "profile", "objective"}
CertificationKeywords == {"certification", "certificate"}
LanguagesKeywords == {"languages", "language proficiency"}

AnyKeyword(line_lower, keywords) == \E k \in keywords : Contains(line_lower, k)

\* a slip of the if/elif chain: the skills keywords are tried first
ClassifySkillsFirst(line) ==
    LET line_lower == Strip(Lower(line))
    IN  IF AnyKeyword(line_lower, SkillsKeywords) THEN "skills"
        ELSE IF AnyKeyword(line_lower, ExperienceKeywords) THEN "experience"
        ELSE IF AnyKeyword(line_lower, EducationKeywords) THEN "education"
        ELSE IF AnyKeyword(line_lower, SummaryKeywords) THEN "summary"
        ELSE IF AnyKeyword(line_lower, CertificationKeywords) THEN "certifications"
        ELSE IF AnyKeyword(line_lower, LanguagesKeywords) THEN "languages"
        ELSE IF Strip(line) # "" THEN "content"
        ELSE "blank"

\* the branch of the if/elif chain the line takes: a section, "content"
\* (a non-blank line without keyword) or "blank"
Classify(line) ==
    LET line_lower == Strip(Lower(line))
    IN  IF AnyKeyword(line_lower, ExperienceKeywords) THEN "experience"
        ELSE IF AnyKeyword(line_lower, EducationKeywords) THEN "education"
        ELSE IF AnyKeyword(line_lower, SkillsKeywords) THEN "skills"
        ELSE IF AnyKeyword(line_lower, SummaryKeywords) THEN "summary"
        ELSE IF AnyKeyword(line_lower, CertificationKeywords) THEN "certifications"
        ELSE IF AnyKeyword(line_lower, LanguagesKeywords) THEN "languages"
        ELSE IF Strip(line) # "" THEN "content"
        ELSE "blank"

SectionNames ==
    {"experience", "education", "skills", "summary", "certifications", "languages"}

\* a slip of the flush: the entry is put in front of the earlier ones
PrependJoined(data, section, buf) ==
    [data EXCEPT ![section] = <<Join(buf, "\n")>> \o @]

\* extracted_data[section].append('\n'.join(section_content))
AppendJoined(data, section, buf) ==
    [data EXCEPT ![section] = Append(@, Join(buf, "\n"))]

\* a slip of the header branches: a pending certifications or languages
\* buffer is stored when the next header is met
FlushListsToo(st, branch) ==
    IF st.cur \in {"certifications", "languages"} /\ st.buf # <<>>
    THEN [st.data EXCEPT ![st.cur] = st.buf]
    ELSE st.data

\* a slip of the header branches: the pending buffer is dropped
FlushNothing(st, branch) == st.data

\* what a header line flushes, by the branch that handles it
FlushOnHeader(st, branch) ==
    CASE branch \in {"experience", "education"} ->
            IF st.cur = "experience" /\ st.buf # <<>>
            THEN AppendJoined(st.data, "experience", st.buf)
            ELSE st.data
      [] branch \in {"skills", "certifications"} ->
            IF st.cur # "" /\ st.buf # <<>> /\ st.cur \in {"experience", "education"}
            THEN AppendJoined(st.data, st.cur, st.buf)
            ELSE st.data
      [] branch \in {"summary", "languages"} -> st.data

\* a slip of the skills branch: the line is appended as it stands
WalkStepUntrimmed(st, line) ==
    LET branch == Classify(line)
    IN  IF branch \in SectionNames
        THEN [data |-> FlushOnHeader(st, branch), cur |-> branch, buf |-> <<>>]
        ELSE IF st.cur = "summary" /\ branch # "blank"
        THEN [st EXCEPT !.data.summary = @ \o " " \o Strip(line)]
        ELSE IF st.cur = "skills"
        THEN [st EXCEPT !.data.skills = Append(@, line)]
        ELSE IF st.cur \in {"experience", "education", "certifications", "languages"}
                /\ branch # "blank"
        THEN [st EXCEPT !.buf = Append(@, Strip(line))]
        ELSE st

\* a slip of the header branches: the header line opens the new buffer
WalkStepHeaderKept(st, line) ==
    LET branch == Classify(line)
    IN  IF branch \in SectionNames
        THEN [data |-> FlushOnHeader(st, branch), cur |-> branch,
              buf |-> <<Strip(line)>>]
        ELSE IF branch = "blank" THEN st
        ELSE IF st.cur = "summary"
        THEN [st EXCEPT !.data.summary = @ \o " " \o Strip(line)]
        ELSE IF st.cur = "skills"
        THEN [st EXCEPT !.data.skills = Append(@, Strip(line))]
        ELSE IF st.cur \in {"experience", "education", "certifications", "languages"}
        THEN [st EXCEPT !.buf = Append(@, Strip(line))]
        ELSE st

\* one iteration of `for line in lines`
WalkStep(st, line) ==
    LET branch == Classify(line)
    IN  IF branch \in SectionNames
        THEN [data |-> FlushOnHeader(st, branch), cur |-> branch, buf |-> <<>>]
        ELSE IF branch = "blank" THEN st
        ELSE IF st.cur = "summary"
        THEN [st EXCEPT !.data.summary = @ \o " " \o Strip(line)]
        ELSE IF st.cur = "skills"
        THEN [st EXCEPT !.data.skills = Append(@, Strip(line))]
        ELSE IF st.cur \in {"experience", "education", "certifications", "languages"}
        THEN [st EXCEPT !.buf = Append(@, Strip(line))]
        ELSE st

\* a slip of the flush after the loop: certifications and languages get
\* one joined entry, as experience and education do
FinalFlushJoined(st) ==
    IF st.cur \in {"experience", "education", "certifications", "languages"}
       /\ st.buf # <<>>
    THEN AppendJoined(st.data, st.cur, st.buf)
    ELSE st.data

\* "Add remaining section content", after the loop
FinalFlush(st) ==
    IF st.cur = "experience" /\ st.buf # <<>>
    THEN AppendJoined(st.data, "experience", st.buf)
    ELSE IF st.cur = "education" /\ st.buf # <<>>
    THEN AppendJoined(st.data, "education", st.buf)
    ELSE IF st.cur = "certifications" /\ st.buf # <<>>
    THEN [st.data EXCEPT !.certifications = st.buf]
    ELSE IF st.cur = "languages" /\ st.buf # <<>>
    THEN [st.data EXCEPT !.languages = st.buf]
    ELSE st.data

RECURSIVE WalkFrom(_, _, _)
WalkFrom(st, ls, i) ==
    IF i > Len(ls) THEN st ELSE WalkFrom(WalkStep(st, ls[i]), ls, i + 1)

\* the profile extract_information builds from a text
ExtractProfile(content) ==
    FinalFlush(WalkFrom([data |-> InitialData(content), cur |-> "", buf |-> <<>>],
                        Split(content, "\n"), 1))

(***************************************************************************)
(* Documents.  GenDocs: every document of at most MaxLines lines over      *)
(* LineKinds (the six kinds of header, a blank line, two content lines).   *)
(* MoreDocs: longer documents with contact data, names and lines that      *)
(* hold keywords of several sections.                                      *)
(***************************************************************************)
LineKinds ==
    {"Experience", "EDUCATION", " Skills:", "Summary", "Certifications",
     "Languages", "", "  Python  ", "Acme 2019 - 2021"}

GenDocs ==
    {Join(ls, "\n") : ls \in UNION {[1..n -> LineKinds] : n \in 0..MaxLines}}

MoreDocs ==
    {"Jane Doe\njane@x.io | +1 (555) 123-4567\nlinkedin.com/in/jane-doe\nalt: j.doe@work.org, 555 987 6543 21\nLinkedIn.com/in/Other",
     "Resume 2024\n\nhttp://jane.dev\n\n\nJane Doe\nSummary\nBuilds things.\nSkills\nPython\n\n AWS \nDocker\nWork History\nAcme 2019 - 2021\nLead\nEducation\nMIT 2015",
     "JOHN ROE\nTechnical Skills & Experience\nGo\nAcademic profile\nBSc\nLanguage Proficiency\nEnglish\nFrench",
     "Certificates\nCKA\nCKAD\nLanguages\nEnglish\nemployment\nAcme\nCompetencies\nSQL\nObjective\nGrow",
     "Contact: LINKEDIN.COM/IN/Max_Power2 max@a.co max@b.co\nCall (212) 555-0100 or 2125550199",
     "Experience\nAcme 2019 - 2021\n Lead\nEmployment\nBeta 2017\nEducation\nBSc\nSkills\nGo\nAcademic\nMSc\n\nPhD \nLanguages\nEnglish\n French",
     "Education & Work History\nAcme 2019\nSkills Summary\nGo\nAcademic Certificate\nBSc\nProfile of Languages\nPolyglot\nCertificate in Language Proficiency\nCKA\nLanguages\nEnglish\n Spanish"}

Docs == GenDocs \cup MoreDocs

NoData == [none |-> TRUE]
NoCall == [t |-> "none"]

\* the app when a session starts: nothing uploaded (None),
\* st.session_state empty, the locals of the handler unbound
AppStart ==
    /\ uploaded_file = [t |-> "pynone"]
    /\ session_state = <<>>
    /\ tmp_path = ""
    /\ result = NoCall
    /\ step = "idle"
    /\ files = {}
    /\ analysed = <<>>
    /\ displayed = NoCall

(***************************************************************************)
(* extract_information, line by line (specification ExtractSpec).  The     *)
(* same text is given to the operation up to MaxCalls times.               *)
(***************************************************************************)
ExtractInit ==
    /\ resume_content \in Docs
    /\ pc = "idle"
    /\ lines = <<>>
    /\ idx = 0
    /\ current_section = ""
    /\ section_content = <<>>
    /\ extracted_data = NoData
    /\ calls = 0
    /\ first_result = NoData
    /\ op = ""
    /\ mod = ""
    /\ arg = NoCall
    /\ ret = NoCall
    /\ AppStart

\* the locals as they are set before the loop
StartExtract ==
    /\ pc \in {"idle", "done"}
    /\ calls < MaxCalls
    /\ extracted_data' = InitialData(resume_content)
    /\ lines' = Split(resume_content, "\n")
    /\ current_section' = ""
    /\ section_content' = <<>>
    /\ idx' = 1
    /\ pc' = "walk"
    /\ UNCHANGED <<resume_content, calls, first_result, toolVars, appVars>>

WalkLine ==
    /\ pc = "walk"
    /\ idx <= Len(lines)
    /\ LET st == WalkStep([data |-> extracted_data, cur |-> current_section,
                           buf |-> section_content], lines[idx])
       IN  /\ extracted_data' = st.data
           /\ current_section' = st.cur
           /\ section_content' = st.buf
    /\ idx' = idx + 1
    /\ UNCHANGED <<resume_content, pc, lines, calls, first_result, toolVars, appVars>>

\* the flush after the loop, and the return
FinishExtract ==
    /\ pc = "walk"
    /\ idx > Len(lines)
    /\ extracted_data' = FinalFlush([data |-> extracted_data, cur |-> current_section,
                                     buf |-> section_content])
    /\ pc' = "done"
    /\ calls' = calls + 1
    /\ first_result' = IF calls = 0 THEN extracted_data' ELSE first_result
    /\ UNCHANGED <<resume_content, lines, idx, current_section, section_content, toolVars, appVars>>

ExtractNext == StartExtract \/ WalkLine \/ FinishExtract

ExtractSpec == ExtractInit /\ [][ExtractNext]_vars

(***************************************************************************)
(* Values passed to and returned by the tools.                              *)
(*   Str(s)        a text that is not JSON                                  *)
(*   JsonText(v)   the JSON text of the value v (json.dumps(v)); json.loads *)
(*                 of it is v                                               *)
(*   Report(p, j)  the text j.join(p) of a report built from the parts p    *)
(*   PyNone        None                                                     *)
(*   Raised(e)     no value: the exception e left the operation             *)
(* Pictographs of the report texts are written as ASCII names between       *)
(* colons (":warning:" for the warning sign, ":bulb:" for the light bulb)   *)
(* and the bullet character as "*".                                         *)
(***************************************************************************)
Str(s) == [t |-> "str", s |-> s]
JsonText(v) == [t |-> "json", v |-> v]
Report(parts, joiner) == [t |-> "report", parts |-> parts, joiner |-> joiner]
PyNone == [t |-> "pynone"]
Raised(e) == [t |-> "raised", type |-> e.exc, msg |-> e.msg]

\* JSON values
JS(s) == [t |-> "str", s |-> s]
JN(n) == [t |-> "num", n |-> n]
JL(l) == [t |-> "list", l |-> l]
JO(o) == [t |-> "obj", o |-> o]
JNull == [t |-> "null"]

JStrings(ss) == JL([k \in 1..Len(ss) |-> JS(ss[k])])

\* type(v).__name__ of the Python value json.loads gives
TypeName(v) ==
    CASE v.t = "str" -> "str"
      [] v.t = "num" -> "int"
      [] v.t = "list" -> "list"
      [] v.t = "obj" -> "dict"
      [] v.t = "null" -> "NoneType"

\* bool(v)
Truthy(v) ==
    CASE v.t = "str" -> v.s # ""
      [] v.t = "num" -> v.n # 0
      [] v.t = "list" -> v.l # <<>>
      [] v.t = "obj" -> DOMAIN v.o # {}
      [] v.t = "null" -> FALSE

\* d.get(key, default) of a dict d
Get(d, key, default) == IF key \in DOMAIN d.o THEN d.o[key] ELSE default

\* str(v) in an f-string, of a string, a number or None
Fmt(v) ==
    CASE v.t = "str" -> v.s
      [] v.t = "num" -> ToString(v.n)
      [] v.t = "null" -> "None"

\* json.dumps(extracted_data)
ToJson(data) ==
    JO([name |-> JS(data.name),
        contact |-> JO([email |-> JS(data.contact.email),
                        phone |-> JS(data.contact.phone),
                        linkedin |-> JS(data.contact.linkedin),
                        location |-> JS(data.contact.location)]),
        summary |-> JS(data.summary),
        experience |-> JStrings(data.experience),
        skills |-> JStrings(data.skills),
        education |-> JStrings(data.education),
        certifications |-> JStrings(data.certifications),
        languages |-> JStrings(data.languages)])

(***************************************************************************)
(* Exceptions.  The body of an operation yields Ok(value) or               *)
(* Exc(type, msg); every type of the model is a subclass of Exception.     *)
(***************************************************************************)
Ok(value) == [exc |-> "", val |-> value]
Exc(type, msg) == [exc |-> type, msg |-> msg]

NoAttribute(v, attr) ==
    Exc("AttributeError", "'" \o TypeName(v) \o "' object has no attribute '" \o attr \o "'")

NotIterable(v) == Exc("TypeError", "'" \o TypeName(v) \o "' object is not iterable")

NoLen(v) == Exc("TypeError", "object of type '" \o TypeName(v) \o "' has no len()")

\* the first exception of a sequence of steps, Ok(TRUE) when none raises
FirstExc(steps) ==
    LET bad == {k \in 1..Len(steps) : steps[k].exc # ""}
    IN  IF bad = {} THEN Ok(TRUE) ELSE steps[Min(bad)]

\* json.loads(text)
Loads(text) ==
    CASE text.t = "json" -> Ok(text.v)
      [] text.t \in {"str", "report"} ->
            Exc("JSONDecodeError", "Expecting value: line 1 column 1 (char 0)")
      [] text.t = "pynone" ->
            Exc("TypeError", "the JSON object must be str, bytes or bytearray, not NoneType")

\* data.get(...): data must be a dict
NeedDict(v) == IF v.t = "obj" THEN Ok(TRUE) ELSE NoAttribute(v, "get")

\* v.strip(): v must be a string
NeedStr(v) == IF v.t = "str" THEN Ok(TRUE) ELSE NoAttribute(v, "strip")

\* `for x in v: x.strip()` over a list (or a number, which is not iterable)
NeedStrItems(v) ==
    CASE v.t = "list" ->
            LET bad == {k \in 1..Len(v.l) : v.l[k].t # "str"}
            IN  IF bad = {} THEN Ok(TRUE) ELSE NoAttribute(v.l[Min(bad)], "strip")
      [] v.t \in {"num", "null"} -> NotIterable(v)

\* `if data.get(key): for x in data[key]: x.strip()`
IfTruthyStrItems(v) == IF Truthy(v) THEN NeedStrItems(v) ELSE Ok(TRUE)

\* [x for x in v if x.strip()] of a list of strings
NonBlank(v) == SelectSeq(v.l, LAMBDA x : Strip(x.s) # "")

\* the parts a loop appends, one per entry kept
MapParts(items, Part(_, _)) ==
    LET RECURSIVE Go(_)
        Go(k) ==
            IF k > Len(items) THEN <<>>
            ELSE (IF Strip(items[k].s) # "" THEN <<Part(k, items[k].s)>> ELSE <<>>) \o Go(k + 1)
    IN  Go(1)

(***************************************************************************)
(* generate_summary.                                                       *)
(***************************************************************************)
\* the steps of the body that can raise, in the order the body takes them
SummaryFaults(data) ==
    LET contact == Get(data, "contact", JO(<<>>))
        summary == Get(data, "summary", JNull)
    IN  <<NeedDict(data),
          NeedDict(IF data.t = "obj" THEN contact ELSE JO(<<>>)),
          IF data.t = "obj" /\ Truthy(summary) THEN NeedStr(summary) ELSE Ok(TRUE),
          IF data.t = "obj" THEN IfTruthyStrItems(Get(data, "experience", JNull)) ELSE Ok(TRUE),
          IF data.t = "obj" THEN IfTruthyStrItems(Get(data, "skills", JNull)) ELSE Ok(TRUE),
          IF data.t = "obj" THEN IfTruthyStrItems(Get(data, "education", JNull)) ELSE Ok(TRUE),
          IF data.t = "obj" THEN IfTruthyStrItems(Get(data, "certifications", JNull)) ELSE Ok(TRUE),
          IF data.t = "obj" THEN IfTruthyStrItems(Get(data, "languages", JNull)) ELSE Ok(TRUE)>>

\* `if d.get(key): parts.append(label + d[key] + end)`
FieldPart(d, key, label, end) ==
    IF Truthy(Get(d, key, JNull)) THEN <<label \o Fmt(d.o[key]) \o end>> ELSE <<>>

\* a slip of the tally: a line for every sequence, empty or not
InsightPartsAlways(data, bullet, end) ==
    LET Count(key) == ToString(Len(NonBlank(Get(data, key, JL(<<>>)))))
        Line(key, what) == <<bullet \o Count(key) \o what \o end>>
    IN  Line("experience", " work experience entries documented")
        \o Line("skills", " skills identified")
        \o Line("education", " educational qualifications listed")
        \o Line("certifications", " certifications obtained")

\* a slip of the tally: the counts stop at the number of skills shown
InsightPartsCapped(data, bullet, end) ==
    LET Count(key) == ToString(Min({20, Len(NonBlank(data.o[key]))}))
        Line(key, what) ==
            IF Truthy(Get(data, key, JNull))
            THEN <<bullet \o Count(key) \o what \o end>>
            ELSE <<>>
    IN  Line("experience", " work experience entries documented")
        \o Line("skills", " skills identified")
        \o Line("education", " educational qualifications listed")
        \o Line("certifications", " certifications obtained")

\* the insights tally: one line per non-empty sequence, with its count
InsightParts(data, bullet, end) ==
    LET Count(key) == ToString(Len(NonBlank(data.o[key])))
        Line(key, what) ==
            IF Truthy(Get(data, key, JNull))
            THEN <<bullet \o Count(key) \o what \o end>>
            ELSE <<>>
    IN  Line("experience", " work experience entries documented")
        \o Line("skills", " skills identified")
        \o Line("education", " educational qualifications listed")
        \o Line("certifications", " certifications obtained")

SkillsCap == 20

\* a slip of the skills line: the cut to the first entries left out
SkillsLineUncapped(data) ==
    LET skills_list == NonBlank(data.o.skills)
    IN  Join([k \in 1..Len(skills_list) |-> skills_list[k].s], ", ")

\* ", ".join(skills_list[:20]) of the non-blank skills
SkillsLine(data) ==
    LET skills_list == NonBlank(data.o.skills)
        shown == SubSeq(skills_list, 1, Min({SkillsCap, Len(skills_list)}))
    IN  Join([k \in 1..Len(shown) |-> shown[k].s], ", ")

\* src/scripts/resume_tools.py: the markdown report
SummaryPartsTools(data) ==
    LET contact == Get(data, "contact", JO(<<>>))
        Has(key) == Truthy(Get(data, key, JNull))
    IN  <<"# :clipboard: RESUME ANALYSIS SUMMARY\n">>
        \o <<"## :bust: Personal Information\n">>
        \o FieldPart(data, "name", "**Name:** ", "\n")
        \o FieldPart(contact, "email", "**Email:** ", "\n")
        \o FieldPart(contact, "phone", "**Phone:** ", "\n")
        \o FieldPart(contact, "linkedin", "**LinkedIn:** ", "\n")
        \o FieldPart(contact, "location", "**Location:** ", "\n")
        \o (IF Has("summary")
            THEN <<"\n## :briefcase: Professional Summary\n", Strip(data.o.summary.s) \o "\n">>
            ELSE <<>>)
        \o (IF Has("experience")
            THEN <<"\n## :office: Work Experience\n">>
                 \o MapParts(data.o.experience.l,
                              LAMBDA k, e : "### Position " \o ToString(k) \o "\n" \o e \o "\n")
            ELSE <<>>)
        \o (IF Has("skills")
            THEN <<"\n## :tools: Skills\n">>
                 \o (IF NonBlank(data.o.skills) # <<>> THEN <<SkillsLine(data) \o "\n">> ELSE <<>>)
            ELSE <<>>)
        \o (IF Has("education")
            THEN <<"\n## :cap: Education\n">>
                 \o MapParts(data.o.education.l, LAMBDA k, e : ToString(k) \o ". " \o e \o "\n")
            ELSE <<>>)
        \o (IF Has("certifications")
            THEN <<"\n## :scroll: Certifications\n">>
                 \o MapParts(data.o.certifications.l, LAMBDA k, e : "- " \o e \o "\n")
            ELSE <<>>)
        \o (IF Has("languages")
            THEN <<"\n## :globe: Languages\n">>
                 \o MapParts(data.o.languages.l, LAMBDA k, e : "- " \o e \o "\n")
            ELSE <<>>)
        \o <<"\n## :bulb: Key Insights\n">>
        \o InsightParts(data, "- ", "\n")

Banner == "============================================================"
Rule == "------------------------------------------------------------"

\* src/Resume-Analyst-Agent.py: the plain-text report
SummaryPartsAgent(data) ==
    LET contact == Get(data, "contact", JO(<<>>))
        Has(key) == Truthy(Get(data, key, JNull))
    IN  <<Banner, "RESUME ANALYSIS SUMMARY", Banner, "">>
        \o <<":clipboard: PERSONAL INFORMATION", Rule>>
        \o FieldPart(data, "name", "Name: ", "")
        \o FieldPart(contact, "email", "Email: ", "")
        \o FieldPart(contact, "phone", "Phone: ", "")
        \o FieldPart(contact, "linkedin", "LinkedIn: ", "")
        \o FieldPart(contact, "location", "Location: ", "")
        \o <<"">>
        \o (IF Has("summary")
            THEN <<":briefcase: PROFESSIONAL SUMMARY", Rule, Strip(data.o.summary.s), "">>
            ELSE <<>>)
        \o (IF Has("experience")
            THEN <<":office: WORK EXPERIENCE", Rule>>
                 \o MapParts(data.o.experience.l,
                              LAMBDA k, e : "\n" \o ToString(k) \o ". " \o e)
                 \o <<"">>
            ELSE <<>>)
        \o (IF Has("skills")
            THEN <<":tools: SKILLS", Rule>>
                 \o (IF NonBlank(data.o.skills) # <<>> THEN <<SkillsLine(data)>> ELSE <<>>)
                 \o <<"">>
            ELSE <<>>)
        \o (IF Has("education")
            THEN <<":cap: EDUCATION", Rule>>
                 \o MapParts(data.o.education.l, LAMBDA k, e : ToString(k) \o ". " \o e)
                 \o <<"">>
            ELSE <<>>)
        \o (IF Has("certifications")
            THEN <<":scroll: CERTIFICATIONS", Rule>>
                 \o MapParts(data.o.certifications.l, LAMBDA k, e : "* " \o e)
                 \o <<"">>
            ELSE <<>>)
        \o (IF Has("languages")
            THEN <<":globe: LANGUAGES", Rule>>
                 \o MapParts(data.o.languages.l, LAMBDA k, e : "* " \o e)
                 \o <<"">>
            ELSE <<>>)
        \o <<":bulb: KEY INSIGHTS", Rule>>
        \o InsightParts(data, "* ", "")
        \o <<"", Banner>>

\* the try block of generate_summary
SummaryBody(m, text) ==
    LET loaded == Loads(text)
        fault == FirstExc(SummaryFaults(loaded.val))
    IN  IF loaded.exc # "" THEN loaded
        ELSE IF fault.exc # "" THEN fault
        ELSE IF m = "tools" THEN Ok(Report(SummaryPartsTools(loaded.val), ""))
        ELSE Ok(Report(SummaryPartsAgent(loaded.val), "\n"))

\* text[:200] of the argument, in the agent's message (None has no slice);
\* a text that does not parse is a Str
Received(text) == IF text.t = "str" THEN Slice(text.s, 1, 200) ELSE ""

\* a slip of the handlers: only the JSON error is caught
GenerateSummaryJsonOnly(m, text) ==
    LET r == SummaryBody(m, text)
    IN  IF r.exc = "" THEN r.val
        ELSE IF r.exc = "JSONDecodeError"
        THEN Str("Error parsing extracted data: " \o r.msg)
        ELSE Raised(r)

\* generate_summary: the try block and its two handlers
GenerateSummary(m, text) ==
    LET r == SummaryBody(m, text)
    IN  IF r.exc = "" THEN r.val
        ELSE IF r.exc = "JSONDecodeError"
        THEN Str("Error parsing extracted data: " \o r.msg
                 \o (IF m = "agent" THEN "\nReceived data: " \o Received(text) \o "..." ELSE ""))
        ELSE Str("Error generating summary: " \o r.msg)

(***************************************************************************)
(* calculate_experience_years.                                             *)
(***************************************************************************)
PresentYear == 2026

\* duration_pattern = r'(\d+)\s*(year|yr|years|yrs)' (the agent module only):
\* the end of the digits of the match that starts at i, 0 when there is none
DurationDigitsEnd(s, i) ==
    LET r == RunEnd(s, i, DigitSet)
        w == RunEnd(s, r + 1, WhitespaceSet)
    IN  IF r >= i /\ (Slice(s, w + 1, w + 4) = "year" \/ Slice(s, w + 1, w + 2) = "yr")
        THEN r ELSE 0

DurationMatchEnd(s, i) ==
    LET w == RunEnd(s, DurationDigitsEnd(s, i) + 1, WhitespaceSet)
    IN  IF Slice(s, w + 1, w + 4) = "year" THEN w + 4 ELSE w + 2

\* re.findall(duration_pattern, s): the numbers N of the matches
RECURSIVE FindDurationsFrom(_, _, _)
FindDurationsFrom(s, starts, i) ==
    LET rest == {j \in starts : j >= i}
    IN  IF rest = {} THEN <<>>
        ELSE LET b == Min(rest)
             IN  <<ToInt(SubSeq(s, b, DurationDigitsEnd(s, b)))>>
                 \o FindDurationsFrom(s, starts, DurationMatchEnd(s, b) + 1)

FindDurations(s) ==
    FindDurationsFrom(s, {i \in 1..Len(s) : DurationDigitsEnd(s, i) # 0}, 1)

RECURSIVE Sum(_)
Sum(ns) == IF ns = <<>> THEN 0 ELSE ns[1] + Sum(Tail(ns))

\* the range of one entry: <<start_year, end_year, duration>>, or none
EntryRanges(exp) ==
    LET years == FindYears(exp)
        start_year == ToInt(years[1])
        end_year == IF years[2] # "" THEN ToInt(years[2]) ELSE PresentYear
    IN  IF Len(years) >= 2 THEN <<<<start_year, end_year, end_year - start_year>>>>
        ELSE <<>>

\* what one entry adds to total_years
EntryYears(m, exp) ==
    (IF EntryRanges(exp) # <<>> THEN EntryRanges(exp)[1][3] ELSE 0)
    + (IF m = "agent" THEN Sum(FindDurations(Lower(exp))) ELSE 0)

\* the loop over the entries (strings)
RECURSIVE Analyse(_, _)
Analyse(m, entries) ==
    IF entries = <<>> THEN [total_years |-> 0, year_ranges |-> <<>>]
    ELSE LET rest == Analyse(m, SubSeq(entries, 1, Len(entries) - 1))
             exp == entries[Len(entries)]
         IN  [total_years |-> rest.total_years + EntryYears(m, exp),
              year_ranges |-> rest.year_ranges \o EntryRanges(exp)]

CalcReportParts(m, a, count) ==
    LET bold == IF m = "tools" THEN "**" ELSE ""
        bullet == IF m = "tools" THEN "- " ELSE "  * "
        EndStr(end) == IF end = PresentYear THEN "Present" ELSE ToString(end)
    IN  <<bold \o "Total Years of Experience:" \o bold \o " " \o ToString(a.total_years) \o "\n",
          bold \o "Number of Positions:" \o bold \o " " \o ToString(count) \o "\n">>
        \o (IF a.year_ranges # <<>>
            THEN <<"\n" \o bold \o "Experience Timeline:" \o bold \o "\n">>
                 \o [k \in 1..Len(a.year_ranges) |->
                        bullet \o ToString(a.year_ranges[k][1]) \o " - "
                        \o EndStr(a.year_ranges[k][2]) \o " ("
                        \o ToString(a.year_ranges[k][3]) \o " years)\n"]
            ELSE <<>>)

\* re.findall(pattern, exp) of each entry: every entry must be a string
NeedStrEntries(v) ==
    CASE v.t = "list" ->
            LET bad == {k \in 1..Len(v.l) : v.l[k].t # "str"}
            IN  IF bad = {} THEN Ok(TRUE)
                ELSE Exc("TypeError", "expected string or bytes-like object, got '"
                                      \o TypeName(v.l[Min(bad)]) \o "'")
      [] v.t \in {"num", "null"} -> NotIterable(v)

\* the try block of calculate_experience_years
CalcBody(m, text) ==
    LET loaded == Loads(text)
        data == loaded.val
        entries == Get(data, "experience", JL(<<>>))
        strings == [k \in 1..Len(entries.l) |-> entries.l[k].s]
        a == Analyse(m, strings)
    IN  IF loaded.exc # "" THEN loaded
        ELSE IF NeedDict(data).exc # "" THEN NeedDict(data)
        ELSE IF NeedStrEntries(entries).exc # "" THEN NeedStrEntries(entries)
        ELSE Ok([t |-> "report", parts |-> CalcReportParts(m, a, Len(strings)), joiner |-> "",
                 result |-> [total_years |-> a.total_years, year_ranges |-> a.year_ranges,
                             experience_count |-> Len(strings)]])

CalculateExperienceYears(m, text) ==
    LET r == CalcBody(m, text)
    IN  IF r.exc = "" THEN r.val ELSE Str("Error calculating experience: " \o r.msg)

(***************************************************************************)
(* match_job_requirements.                                                 *)
(***************************************************************************)
common_skills ==
    <<"python", "java", "javascript", "typescript", "react", "angular", "vue",
      "node", "django", "flask", "spring", "sql", "nosql", "mongodb", "postgresql",
      "aws", "azure", "gcp", "docker", "kubernetes", "ci/cd", "git", "agile",
      "scrum", "machine learning", "ai", "data science", "analytics", "leadership",
      "communication", "project management", "api", "rest", "microservices">>

\* job_keywords: the vocabulary terms found in the lowercased requirements
JobKeywords(job) ==
    {common_skills[k] : k \in {j \in 1..Len(common_skills) :
                                  Contains(Lower(job), common_skills[j])}}

\* the terms of S in the order of the vocabulary
InVocabularyOrder(S) ==
    SelectSeq(common_skills, LAMBDA t : t \in S)

Reverse(seq) == [k \in 1..Len(seq) |-> seq[Len(seq) + 1 - k]]

\* the orders in which a Python set of strings can be iterated: every
\* order of a set of at most MaxPermuted terms; of a larger set, the order
\* of the vocabulary and its reverse
Orders(S) ==
    IF Cardinality(S) <= MaxPermuted
    THEN {o \in [1..Cardinality(S) -> S] :
             \A a, b \in 1..Cardinality(S) : a # b => o[a] # o[b]}
    ELSE {InVocabularyOrder(S), Reverse(InVocabularyOrder(S))}

\* [skill.lower().strip() for skill in skills if skill.strip()]
ResumeSkills(skills) ==
    LET kept == NonBlank(skills)
    IN  [k \in 1..Len(kept) |-> Strip(Lower(kept[k].s))]

\* a slip of `keyword in resume_skill`: the operands swapped
IsMatchedSwapped(keyword, resume_skills) ==
    \E k \in 1..Len(resume_skills) : Contains(keyword, resume_skills[k])

IsMatched(keyword, resume_skills) ==
    \E k \in 1..Len(resume_skills) : Contains(resume_skills[k], keyword)

\* a slip of the score: the division by the number of keywords left out
FormatPctUndivided(k, n) == ToString(100 * k) \o ".0"

\* a slip of the tiers: the lower bounds exclusive
RecommendationExclusive(matched, total) ==
    IF total > 0 /\ matched * 100 > 70 * total THEN "strong"
    ELSE IF total > 0 /\ matched * 100 > 50 * total THEN "good"
    ELSE "acquire"

\* f"{100 * k / n:.1f}": one decimal, a tie rounded to the even digit
FormatPct(k, n) ==
    LET q == (k * 1000) \div n
        r == (k * 1000) % n
        tenths == IF 2 * r > n \/ (2 * r = n /\ q % 2 = 1) THEN q + 1 ELSE q
    IN  ToString(tenths \div 10) \o "." \o ToString(tenths % 10)

Thresholds == [strong |-> 70, good |-> 50]

\* the branch of `if match_percentage >= 70 ... elif >= 50 ... else`
Recommendation(matched, total) ==
    IF total > 0 /\ matched * 100 >= Thresholds.strong * total THEN "strong"
    ELSE IF total > 0 /\ matched * 100 >= Thresholds.good * total THEN "good"
    ELSE "acquire"

RecommendationText ==
    [strong |-> "Strong match! Consider applying for this position.",
     good |-> "Good match. Consider highlighting relevant experience.",
     acquire |-> "Consider acquiring missing skills or emphasizing transferable skills."]

MatchReportParts(m, matched, missing, total) ==
    LET score == IF total > 0 THEN FormatPct(Len(matched), total) ELSE "0.0"
        bullet == IF m = "tools" THEN "- " ELSE "  * "
        end == IF m = "tools" THEN "\n" ELSE ""
        Items(ks) == [k \in 1..Len(ks) |-> bullet \o ks[k] \o end]
        rec == RecommendationText[Recommendation(Len(matched), total)]
    IN  IF m = "tools"
        THEN <<"# :chart: Job Requirements Match Analysis\n",
               "## Match Score: " \o score \o "%\n">>
             \o (IF matched # <<>> THEN <<"\n### :check: Matching Skills\n">> \o Items(matched)
                 ELSE <<>>)
             \o (IF missing # <<>> THEN <<"\n### :cross: Missing Skills\n">> \o Items(missing)
                 ELSE <<>>)
             \o <<"\n### :bulb: Recommendations\n", "- " \o rec \o "\n">>
        ELSE <<Banner, "JOB REQUIREMENTS MATCH ANALYSIS", Banner, "",
               ":chart: Match Score: " \o score \o "%", "">>
             \o (IF matched # <<>> THEN <<":check: MATCHING SKILLS:">> \o Items(matched) \o <<"">>
                 ELSE <<>>)
             \o (IF missing # <<>> THEN <<":cross: MISSING SKILLS:">> \o Items(missing) \o <<"">>
                 ELSE <<>>)
             \o <<":bulb: RECOMMENDATIONS:", "  * " \o rec, Banner>>

\* job_requirements.lower()
NeedLower(job) ==
    IF job.t = "pynone" THEN NoAttribute(JNull, "lower") ELSE Ok(TRUE)

\* the try block of match_job_requirements; order: the order in which the
\* set job_keywords is iterated
MatchBody(m, text, job, order) ==
    LET loaded == Loads(text)
        data == loaded.val
        skills == Get(data, "skills", JL(<<>>))
        resume_skills == ResumeSkills(skills)
        matched_skills == SelectSeq(order, LAMBDA k : IsMatched(k, resume_skills))
        missing_skills == SelectSeq(order, LAMBDA k : ~IsMatched(k, resume_skills))
    IN  IF loaded.exc # "" THEN loaded
        ELSE IF NeedDict(data).exc # "" THEN NeedDict(data)
        ELSE IF NeedStrItems(skills).exc # "" THEN NeedStrItems(skills)
        ELSE IF NeedLower(job).exc # "" THEN NeedLower(job)
        ELSE Ok([t |-> "report",
                 parts |-> MatchReportParts(m, matched_skills, missing_skills, Len(order)),
                 joiner |-> IF m = "tools" THEN "" ELSE "\n",
                 result |-> [job_keywords |-> {order[k] : k \in 1..Len(order)},
                             matched_skills |-> matched_skills,
                             missing_skills |-> missing_skills,
                             total_keywords |-> Len(order),
                             recommendation |-> Recommendation(Len(matched_skills), Len(order))]])

MatchJobRequirements(m, text, job, order) ==
    LET r == MatchBody(m, text, job, order)
    IN  IF r.exc = "" THEN r.val ELSE Str("Error matching job requirements: " \o r.msg)

(***************************************************************************)
(* suggest_improvements.                                                   *)
(***************************************************************************)
Warn == ":warning: "
Tip == ":bulb: "

SummaryMinLen == 100
ExperienceMinCount == 2
SkillsMinCount == 5

\* len(v)
PyLen(v) ==
    CASE v.t = "str" -> Len(v.s)
      [] v.t = "list" -> Len(v.l)
      [] v.t = "obj" -> Cardinality(DOMAIN v.o)

\* len(v) of a truthy value: a number has none
NeedLen(v) == IF Truthy(v) /\ v.t = "num" THEN NoLen(v) ELSE Ok(TRUE)

SuggestFaults(data) ==
    <<NeedDict(data),
      NeedDict(IF data.t = "obj" THEN Get(data, "contact", JO(<<>>)) ELSE JO(<<>>)),
      IF data.t = "obj" THEN NeedLen(Get(data, "summary", JNull)) ELSE Ok(TRUE),
      IF data.t = "obj" THEN NeedLen(Get(data, "experience", JL(<<>>))) ELSE Ok(TRUE),
      IF data.t = "obj" THEN NeedStrItems(Get(data, "skills", JL(<<>>))) ELSE Ok(TRUE)>>

\* `if not d.get(key)`
Missing(d, key) == ~Truthy(Get(d, key, JNull))

When(cond, text) == IF cond THEN <<text>> ELSE <<>>

Contact(data) == Get(data, "contact", JO(<<>>))

NameRule(data) ==
    When(Missing(data, "name"),
         Warn \o "Name is missing or not clearly visible. Ensure your name is prominent at the top.")

EmailRule(data) ==
    When(Missing(Contact(data), "email"),
         Warn \o "Email address is missing. Add a professional email address.")

PhoneRule(data) ==
    When(Missing(Contact(data), "phone"),
         Tip \o "Consider adding a phone number for easy contact.")

LinkedinRule(data) ==
    When(Missing(Contact(data), "linkedin"),
         Tip \o "Add your LinkedIn profile URL to strengthen your professional presence.")

\* a slip of the elif: the length is tested also when the summary is missing
SummaryRuleBoth(data) ==
    When(Missing(data, "summary"),
         Warn \o "Professional summary is missing. Add a 2-3 sentence summary highlighting your expertise.")
    \o When(PyLen(Get(data, "summary", JS(""))) < SummaryMinLen,
            Tip \o "Your professional summary is brief. Expand it to better showcase your value proposition.")

SummaryRule(data) ==
    IF Missing(data, "summary")
    THEN <<Warn \o "Professional summary is missing. Add a 2-3 sentence summary highlighting your expertise.">>
    ELSE When(PyLen(Get(data, "summary", JS(""))) < SummaryMinLen,
              Tip \o "Your professional summary is brief. Expand it to better showcase your value proposition.")

ExperienceRule(data) ==
    LET experience == Get(data, "experience", JL(<<>>))
    IN  IF ~Truthy(experience)
        THEN <<Warn \o "Work experience section is missing or not detected. This is a critical section.">>
        ELSE When(PyLen(experience) < ExperienceMinCount,
                  Tip \o "Consider adding more detailed work experience entries with achievements and metrics.")

SkillsRule(data) ==
    LET skills == NonBlank(Get(data, "skills", JL(<<>>)))
    IN  IF skills = <<>>
        THEN <<Warn \o "Skills section is missing or not detected. Add a dedicated skills section.">>
        ELSE When(Len(skills) < SkillsMinCount,
                  Tip \o "Add more relevant skills to increase your visibility in applicant tracking systems.")

\* a slip of `if not data.get("education")`: only an absent key counts
EducationRuleAbsentOnly(data) ==
    When("education" \notin DOMAIN data.o,
         Warn \o "Education section is missing or not detected. Include your educational background.")

EducationRule(data) ==
    When(Missing(data, "education"),
         Warn \o "Education section is missing or not detected. Include your educational background.")

CertificationsRule(data) ==
    When(Missing(data, "certifications"),
         Tip \o "Consider adding relevant certifications to strengthen your credentials.")

\* the rules, in the order the body evaluates them
Suggestions(data) ==
    NameRule(data) \o EmailRule(data) \o PhoneRule(data) \o LinkedinRule(data)
    \o SummaryRule(data) \o ExperienceRule(data) \o SkillsRule(data)
    \o EducationRule(data) \o CertificationsRule(data)

BestPractices ==
    <<"Use action verbs (Led, Developed, Implemented, Achieved)",
      "Include quantifiable achievements (e.g., 'Increased revenue by 30%')",
      "Keep formatting consistent throughout the document",
      "Tailor your resume for each job application",
      "Keep it concise (1-2 pages for most professionals)",
      "Use keywords from job descriptions to pass ATS systems">>

SuggestReportParts(m, suggestions) ==
    IF m = "tools"
    THEN <<"# :memo: Resume Improvement Suggestions\n">>
         \o (IF suggestions # <<>>
             THEN <<"## Areas for Improvement\n">>
                  \o [k \in 1..Len(suggestions) |-> "- " \o suggestions[k] \o "\n"]
             ELSE <<>>)
         \o <<"\n## :sparkles: General Best Practices\n">>
         \o [k \in 1..Len(BestPractices) |-> "- " \o BestPractices[k] \o "\n"]
    ELSE <<Banner, "RESUME IMPROVEMENT SUGGESTIONS", Banner, "">>
         \o suggestions
         \o <<"", ":sparkles: GENERAL BEST PRACTICES:">>
         \o [k \in 1..Len(BestPractices) |-> "  * " \o BestPractices[k]]
         \o <<"", Banner>>

\* the try block of suggest_improvements
SuggestBody(m, text) ==
    LET loaded == Loads(text)
        fault == FirstExc(SuggestFaults(loaded.val))
    IN  IF loaded.exc # "" THEN loaded
        ELSE IF fault.exc # "" THEN fault
        ELSE Ok([t |-> "report",
                 parts |-> SuggestReportParts(m, Suggestions(loaded.val)),
                 joiner |-> IF m = "tools" THEN "" ELSE "\n",
                 result |-> [suggestions |-> Suggestions(loaded.val)]])

SuggestImprovements(m, text) ==
    LET r == SuggestBody(m, text)
    IN  IF r.exc = "" THEN r.val ELSE Str("Error generating suggestions: " \o r.msg)

(***************************************************************************)
(* read_resume and extract_information as single operations.               *)
(***************************************************************************)
\* read_resume; outcome: what DocumentConverter().convert(file_path) and
\* export_to_markdown() do, Ok(text) or an exception
ReadResume(m, outcome) ==
    IF outcome.exc = "" THEN Str(outcome.val)
    ELSE Str("Error reading resume: " \o outcome.msg)

\* the try block of extract_information; content: a text or None
ExtractBody(content) ==
    IF content.t = "pynone" THEN NoAttribute(JNull, "split")
    ELSE Ok(JsonText(ToJson(ExtractProfile(content.s))))

ExtractInformation(m, content) ==
    LET r == ExtractBody(content)
    IN  IF r.exc = "" THEN r.val
        ELSE IF m = "tools" THEN JsonText(JO([error |-> JS(r.msg)]))
        ELSE JsonText(JO([error |-> JS("Error extracting information: " \o r.msg)]))

(***************************************************************************)
(* The tools as the agent calls them (specification Spec).  A call sets    *)
(* op, mod ("tools" for scripts/resume_tools.py, "agent" for               *)
(* Resume-Analyst-Agent.py), arg and ret; the agent then takes the value   *)
(* and is free to call again.                                              *)
(***************************************************************************)
Modules == {"tools", "agent"}

MaxEntries == 2

Absent == [t |-> "absent"]

\* the dict with the keys of f that are not Absent
Obj(f) == JO([k \in {j \in DOMAIN f : f[j].t # "absent"} |-> f[k]])

ContactOf(email, phone, linkedin) ==
    JO([email |-> JS(email), phone |-> JS(phone), linkedin |-> JS(linkedin),
        location |-> JS("")])

LongSummary ==
    "Engineer with ten years of work on data platforms, teams and delivery; "
    \o "built and ran the billing pipeline of a mid-sized retailer."

ManySkills ==
    <<"Python", "AWS", "Docker", "SQL", "Go", "Rust", "Java", "Kotlin", "Scala",
      "Bash", "Git", "Linux", "Kafka", "Redis", "Spark", "Flink", "Terraform",
      "Ansible", "React", "Vue", "Django", "Flask">>

NameChoices == {Absent, JS("Jane Doe")}
ContactChoices ==
    {Absent, ContactOf("", "", ""),
     ContactOf("jane@x.io", "+1 (555) 123-4567", "linkedin.com/in/jane-doe")}
SummaryChoices == {JS(""), JS("Builds things."), JS(LongSummary)}
ExperienceChoices ==
    {JL(<<>>), JStrings(<<"Acme 2019 - 2021\nLead">>),
     JStrings(<<"Engineer, 2018 - 2022", "Analyst, 2015-2017">>)}
SkillsChoices ==
    {JL(<<>>), JStrings(<<"python", "aws">>),
     JStrings(<<"Python", " AWS ", "", "Docker", "SQL", "   ", "Go">>),
     JStrings(ManySkills)}
EducationChoices == {JL(<<>>), JStrings(<<"BSc, MIT 2015">>)}
CertificationsChoices == {Absent, JL(<<>>), JStrings(<<"CKA", "CKAD">>)}
LanguagesChoices == {JL(<<>>), JStrings(<<"English", " ">>)}

Profiles ==
    {Obj([name |-> n, contact |-> c, summary |-> s, experience |-> x, skills |-> k,
          education |-> e, certifications |-> f, languages |-> l]) :
        n \in NameChoices, c \in ContactChoices, s \in SummaryChoices,
        x \in ExperienceChoices, k \in SkillsChoices, e \in EducationChoices,
        f \in CertificationsChoices, l \in LanguagesChoices}

\* profiles with blank entries: skills that are all blank, six skills of
\* which four are not blank, one blank experience entry
EdgeProfiles ==
    {JO([skills |-> JStrings(<<" ", "">>)]),
     JO([name |-> JS("Jane Doe"),
         contact |-> ContactOf("jane@x.io", "", "linkedin.com/in/jane-doe"),
         summary |-> JS(" "),
         experience |-> JStrings(<<" ">>),
         skills |-> JStrings(<<"Go", "Rust", " ", "SQL", "", "Git">>),
         education |-> JStrings(<<"BSc, MIT 2015">>),
         certifications |-> JStrings(<<"CKA">>)])}

\* what the converter does with the file
ConverterOutcomes ==
    {Ok(d) : d \in MoreDocs \cup {""}}
    \cup {Exc("FileNotFoundError", "[Errno 2] No such file or directory: 'missing.pdf'"),
          Exc("ConversionError", "File format not allowed: resume.xyz")}

\* texts given to extract_information: documents, the error text of
\* read_resume, None
ExtractInputs ==
    {Str(d) : d \in MoreDocs \cup {"", "Summary\n\nSkills\nGo"}}
    \cup {ReadResume(m, o) : m \in Modules, o \in {c \in ConverterOutcomes : c.exc # ""}}
    \cup {PyNone}

\* texts that are no profile: not JSON, JSON that is no dict, a dict with
\* fields of the wrong type, None
Malformed ==
    {Str("not json"), Str(""), PyNone,
     ReadResume("tools", Exc("ConversionError", "File format not allowed: resume.xyz")),
     JsonText(JL(<<>>)), JsonText(JNull), JsonText(JN(5)),
     JsonText(JO([contact |-> JNull])),
     JsonText(JO([experience |-> JL(<<JN(5)>>)])),
     JsonText(JO([skills |-> JL(<<JNull, JS("a")>>)])),
     JsonText(JO([summary |-> JN(5)])),
     JsonText(JO([certifications |-> JN(3)]))}

\* profiles as extract_information returns them, its error value included,
\* and the dict without keys
Extracted ==
    {ExtractInformation(m, c) : m \in Modules, c \in ExtractInputs}
    \cup {JsonText(JO(<<>>))}

ProfileTexts ==
    {JsonText(p) : p \in Profiles \cup EdgeProfiles} \cup Extracted \cup Malformed

EntryPool ==
    {"Engineer, 2018 - 2022", "Analyst, 2015-2017", "Lead 2021 - 2019", "Intern 1999",
     "5 yrs at Acme", "Acme, 2020 to 2023, 3 years", "Consultant 1998 - 2004",
     "Acme 2003 - present, founded 1985"}

ExperienceTexts ==
    {JsonText(JO([experience |-> JStrings(es)])) :
        es \in UNION {[1..n -> EntryPool] : n \in 0..MaxEntries}}
    \cup Extracted \cup Malformed

SkillLists ==
    {<<>>, <<"python", "aws">>, <<"Python 3", "REST APIs", " ">>,
     <<"Docker", "Kubernetes", "React.js">>, <<"  ", "">>, <<"ai", "NoSQL">>,
     <<"React", "Node.js">>,
     <<"Python", "Java", "React", "Node", "Django", "Flask", "Docker">>}

SkillTexts ==
    {JsonText(JO([skills |-> JStrings(ss)])) : ss \in SkillLists}
    \cup Extracted \cup Malformed

JobTexts ==
    {Str("Looking for Python and Docker experience"), Str(""), Str("We need SQL"),
     Str("NoSQL and AWS"), Str("Java/JavaScript, REST API"),
     Str("Answer email and maintain apps"), Str("React, Node, Git"),
     Str("Python, Java, React, Node, Django, Flask, Docker, AWS, Azure, Git"), PyNone}

\* job_keywords of a requirements text (the empty set when it is None)
KeywordsOf(job) == IF job.t = "str" THEN JobKeywords(job.s) ELSE {}

Init ==
    /\ resume_content = ""
    /\ pc = "idle"
    /\ lines = <<>>
    /\ idx = 0
    /\ current_section = ""
    /\ section_content = <<>>
    /\ extracted_data = NoData
    /\ calls = 0
    /\ first_result = NoData
    /\ op = ""
    /\ mod = ""
    /\ arg = NoCall
    /\ ret = NoCall
    /\ AppStart

CallReadResume ==
    /\ op = ""
    /\ \E m \in Modules, outcome \in ConverterOutcomes :
          /\ mod' = m
          /\ arg' = [outcome |-> outcome]
          /\ ret' = ReadResume(m, outcome)
    /\ op' = "read_resume"
    /\ UNCHANGED <<extractVars, appVars>>

CallExtractInformation ==
    /\ op = ""
    /\ \E m \in Modules, content \in ExtractInputs :
          /\ mod' = m
          /\ arg' = [resume_content |-> content]
          /\ ret' = ExtractInformation(m, content)
    /\ op' = "extract_information"
    /\ UNCHANGED <<extractVars, appVars>>

CallGenerateSummary ==
    /\ op = ""
    /\ \E m \in Modules, text \in ProfileTexts :
          /\ mod' = m
          /\ arg' = [extracted_info |-> text]
          /\ ret' = GenerateSummary(m, text)
    /\ op' = "generate_summary"
    /\ UNCHANGED <<extractVars, appVars>>

CallCalculateExperienceYears ==
    /\ op = ""
    /\ \E m \in Modules, text \in ExperienceTexts :
          /\ mod' = m
          /\ arg' = [extracted_info |-> text]
          /\ ret' = CalculateExperienceYears(m, text)
    /\ op' = "calculate_experience_years"
    /\ UNCHANGED <<extractVars, appVars>>

CallMatchJobRequirements ==
    /\ op = ""
    /\ \E m \in Modules, text \in SkillTexts, job \in JobTexts :
          \E order \in Orders(KeywordsOf(job)) :
             /\ mod' = m
             /\ arg' = [extracted_info |-> text, job_requirements |-> job]
             /\ ret' = MatchJobRequirements(m, text, job, order)
    /\ op' = "match_job_requirements"
    /\ UNCHANGED <<extractVars, appVars>>

CallSuggestImprovements ==
    /\ op = ""
    /\ \E m \in Modules, text \in ProfileTexts :
          /\ mod' = m
          /\ arg' = [extracted_info |-> text]
          /\ ret' = SuggestImprovements(m, text)
    /\ op' = "suggest_improvements"
    /\ UNCHANGED <<extractVars, appVars>>

\* the agent takes the value
TakeResult ==
    /\ op # ""
    /\ op' = ""
    /\ mod' = ""
    /\ arg' = NoCall
    /\ ret' = NoCall
    /\ UNCHANGED <<extractVars, appVars>>

Next ==
    \/ CallReadResume
    \/ CallExtractInformation
    \/ CallGenerateSummary
    \/ CallCalculateExperienceYears
    \/ CallMatchJobRequirements
    \/ CallSuggestImprovements
    \/ TakeResult

Spec == Init /\ [][Next]_vars

(***************************************************************************)
(* The Streamlit app (specification AppSpec): main() of                    *)
(* src/Pro-Resume-Analyst-App.py.  Streamlit runs the script from top to   *)
(* bottom on every interaction; step is the position of the run.  An       *)
(* Analyze click runs the handler: the upload is written to a temporary    *)
(* file, run_analysis returns a text or raises, the result is stored, the  *)
(* temporary file is removed, and the results column is drawn.             *)
(***************************************************************************)
MaxRuns == 3

\* the files a user uploads, by name; the uploader takes pdf, docx and txt
UploadNames == {"cv.pdf", "resume.v2.docx", "notes.txt"}

UploadedFile(name) == [t |-> "upload", name |-> name]

\* os.path.splitext(name): <<root, ext>>, split at the last dot that is
\* not a leading one
SplitExt(name) ==
    LET dots == {i \in 1..Len(name) :
                    /\ CharAt(name, i) = "."
                    /\ \E j \in 1..(i - 1) : CharAt(name, j) # "."}
    IN  IF dots = {} THEN <<name, "">>
        ELSE <<SubSeq(name, 1, Max(dots) - 1), SubSeq(name, Max(dots), Len(name))>>

\* the names tempfile.NamedTemporaryFile may give a file of that suffix
TmpStems == {"/tmp/tmpa1", "/tmp/tmpb2"}

TmpPaths(suffix) == {stem \o suffix : stem \in TmpStems}

\* what the agent may answer; the answer of the n-th Analyze click is kept
\* apart from those of the other clicks by its run number
AgentTexts == {"# Resume Analysis\nStrong profile.", ""}

\* the user uploads a file, replaces it or removes it: the script runs
\* without a click on Analyze and draws the results column
Upload ==
    /\ step = "idle"
    /\ \E f \in {PyNone} \cup {UploadedFile(n) : n \in UploadNames} :
          /\ f # uploaded_file
          /\ uploaded_file' = f
    /\ step' = "render"
    /\ UNCHANGED <<session_state, tmp_path, result, files, analysed, displayed,
                   extractVars, toolVars>>

\* `if analyze_button:` the upload is written to a temporary file that is
\* kept when it is closed (delete=False)
ClickAnalyze ==
    /\ step = "idle"
    /\ uploaded_file # PyNone
    /\ Len(analysed) < MaxRuns
    /\ \E p \in TmpPaths(SplitExt(uploaded_file.name)[2]) \ files :
          /\ tmp_path' = p
          /\ files' = files \cup {p}
    /\ analysed' = Append(analysed, uploaded_file.name)
    /\ step' = "try"
    /\ UNCHANGED <<uploaded_file, session_state, result, displayed,
                   extractVars, toolVars>>

\* the try block up to the call: run_analysis returns the agent's answer
RunAnalysisReturns ==
    /\ step = "try"
    /\ \E text \in AgentTexts : result' = [text |-> text, run |-> Len(analysed)]
    /\ step' = "store"
    /\ UNCHANGED <<uploaded_file, session_state, tmp_path, files, analysed,
                   displayed, extractVars, toolVars>>

\* the try block up to the call: run_analysis raises an Exception
RunAnalysisRaises ==
    /\ step = "try"
    /\ step' = "except"
    /\ UNCHANGED <<uploaded_file, session_state, tmp_path, result, files, analysed,
                   displayed, extractVars, toolVars>>

\* "Store result in session state": the two assignments
StoreResult ==
    /\ step = "store"
    /\ session_state' =
          [analysis_result |-> result, file_name |-> uploaded_file.name] @@ session_state
    /\ step' = "finally"
    /\ UNCHANGED <<uploaded_file, tmp_path, result, files, analysed, displayed,
                   extractVars, toolVars>>

\* a slip of the handler: the name is stored although the analysis failed
HandleExceptionStoringName ==
    /\ step = "except"
    /\ session_state' = [file_name |-> uploaded_file.name] @@ session_state
    /\ step' = "finally"
    /\ UNCHANGED <<uploaded_file, tmp_path, result, files, analysed, displayed,
                   extractVars, toolVars>>

\* a slip of the handler: the file is removed at the end of the try block
\* only, so that the except branch leaves it
HandleExceptionNoCleanup ==
    /\ step = "except"
    /\ step' = "render"
    /\ UNCHANGED <<uploaded_file, session_state, tmp_path, result, files, analysed,
                   displayed, extractVars, toolVars>>

\* `except Exception as e: st.error(...)`
HandleException ==
    /\ step = "except"
    /\ step' = "finally"
    /\ UNCHANGED <<uploaded_file, session_state, tmp_path, result, files, analysed,
                   displayed, extractVars, toolVars>>

\* `finally:` the temporary file is removed if it exists
Cleanup ==
    /\ step = "finally"
    /\ files' = IF tmp_path \in files THEN files \ {tmp_path} ELSE files
    /\ step' = "render"
    /\ UNCHANGED <<uploaded_file, session_state, tmp_path, result, analysed,
                   displayed, extractVars, toolVars>>

\* the results column: the stored result and
\* st.session_state.get('file_name', 'resume'), or the placeholder
Render ==
    /\ step = "render"
    /\ displayed' =
          IF "analysis_result" \in DOMAIN session_state
          THEN [result |-> session_state.analysis_result,
                file_name |-> IF "file_name" \in DOMAIN session_state
                              THEN session_state.file_name ELSE "resume"]
          ELSE NoCall
    /\ step' = "idle"
    /\ UNCHANGED <<uploaded_file, session_state, tmp_path, result, files, analysed,
                   extractVars, toolVars>>

AppNext ==
    \/ Upload
    \/ ClickAnalyze
    \/ RunAnalysisReturns
    \/ RunAnalysisRaises
    \/ StoreResult
    \/ HandleException
    \/ Cleanup
    \/ Render

AppSpec == Init /\ [][AppNext]_vars

(***************************************************************************)
(* Claims about extract_information, checked under ExtractSpec.            *)
(***************************************************************************)
RECURSIVE Ascending(_)
Ascending(S) == IF S = {} THEN <<>> ELSE <<Min(S)>> \o Ascending(S \ {Min(S)})

IsHeader(line) == Classify(line) \in SectionNames

\* the section a line lies in: that of the last header before it
SectionOf(ls, i) ==
    LET hs == {j \in 1..(i - 1) : IsHeader(ls[j])}
    IN  IF hs = {} THEN "" ELSE Classify(ls[Max(hs)])

\* the non-blank lines that lie between a skills header and the next header
SkillsLines(ls) ==
    Ascending({i \in 1..Len(ls) : Classify(ls[i]) = "content" /\ SectionOf(ls, i) = "skills"})

\* C5: the skills sequence holds exactly the non-blank lines of the skills
\* sections (N entries for a section of N such lines), each trimmed, in
\* document order, none empty.
C5_SkillsOnePerLine ==
    pc = "done" =>
        LET at == SkillsLines(lines)
            skills == extracted_data.skills
        IN  /\ Len(skills) = Len(at)
            /\ \A k \in 1..Len(at) :
                  /\ skills[k] = Strip(lines[at[k]])
                  /\ skills[k] # ""
                  /\ CharAt(skills[k], 1) \notin WhitespaceSet
                  /\ CharAt(skills[k], Len(skills[k])) \notin WhitespaceSet

\* a skills section of two lines, one of them with blanks around it
C5_Witness ==
    /\ pc = "done"
    /\ Len(extracted_data.skills) = 2
    /\ \E i \in 1..Len(lines) :
          /\ SectionOf(lines, i) = "skills"
          /\ Classify(lines[i]) = "content"
          /\ Strip(lines[i]) # lines[i]

\* an Education header is about to be processed in the experience section
EducationAfterExperience ==
    /\ pc = "walk"
    /\ idx <= Len(lines)
    /\ current_section = "experience"
    /\ Classify(lines[idx]) = "education"

\* C6 as stated: an Education header that follows the Experience header
\* immediately flushes exactly one experience entry.
C6_AsStated ==
    [][(EducationAfterExperience /\ idx >= 2 /\ Classify(lines[idx - 1]) = "experience")
          => /\ Len(extracted_data'.experience) = Len(extracted_data.experience) + 1
             /\ current_section' = "education"]_vars

\* C6, amended: an Education header processed in the experience section
\* appends the pending buffer as exactly one newline-joined experience entry
\* when the buffer is not empty, and appends nothing when it is empty (the
\* header follows the Experience header immediately); the section is then
\* education and the buffer empty.
C6_FlushBeforeSwitch ==
    [][EducationAfterExperience
          => /\ extracted_data'.experience =
                   IF section_content # <<>>
                   THEN Append(extracted_data.experience, Join(section_content, "\n"))
                   ELSE extracted_data.experience
             /\ (idx >= 2 /\ Classify(lines[idx - 1]) = "experience"
                    => extracted_data'.experience = extracted_data.experience)
             /\ current_section' = "education"
             /\ section_content' = <<>>]_vars

\* Experience, one line of content, Education: the line is the one entry
C6_Witness ==
    /\ pc = "walk"
    /\ idx = 4
    /\ Classify(lines[1]) = "experience"
    /\ Classify(lines[2]) = "content"
    /\ Classify(lines[3]) = "education"
    /\ current_section = "education"
    /\ extracted_data.experience = <<Strip(lines[2])>>

\* C8: every call on the same text returns the profile the first call
\* returned.
C8_SameTextSameProfile ==
    pc = "done" => extracted_data = first_result

\* a second call has returned a profile with entries in it
C8_Witness ==
    /\ pc = "done"
    /\ calls = 2
    /\ extracted_data.experience # <<>>
    /\ extracted_data.skills # <<>>

\* the first match of a pattern in a text, by position; "" without a match
FirstMatch(pat, s) ==
    LET starts == {i \in 1..Len(s) : MatchEnd(pat, s, i) # 0}
    IN  IF starts = {} THEN "" ELSE SubSeq(s, Min(starts), MatchEnd(pat, s, Min(starts)))

\* C9: in the profile returned, email, phone and linkedin are each the
\* first match of their pattern in the text (the linkedin pattern on the
\* lowercased text), or empty without a match, whatever matches follow.
C9_FirstMatchOnly ==
    pc = "done" =>
        /\ extracted_data.contact.email = FirstMatch("email", resume_content)
        /\ extracted_data.contact.phone = FirstMatch("phone", resume_content)
        /\ extracted_data.contact.linkedin = FirstMatch("linkedin", Lower(resume_content))

\* a text with two different matches of each kind
C9_Witness ==
    /\ pc = "done"
    /\ \A pat \in {"email", "phone"} :
          LET all == FindAll(pat, resume_content)
          IN  Len(all) >= 2 /\ all[1] # all[2]
    /\ LET all == FindAll("linkedin", Lower(resume_content))
       IN  Len(all) >= 2 /\ all[1] # all[2]

\* the trimmed content lines of a document that lie in a section, in order
SectionLines(ls, section) ==
    LET at == Ascending({i \in 1..Len(ls) : Classify(ls[i]) = "content"
                                            /\ SectionOf(ls, i) = section})
    IN  [k \in 1..Len(at) |-> Strip(ls[at[k]])]

\* the lines of the entries of a sequence, in order
RECURSIVE LinesOf(_)
LinesOf(entries) ==
    IF entries = <<>> THEN <<>>
    ELSE Split(entries[1], "\n") \o LinesOf(Tail(entries))

\* a is b with some of its elements left out
RECURSIVE IsSubseq(_, _)
IsSubseq(a, b) ==
    IF a = <<>> THEN TRUE
    ELSE IF b = <<>> THEN FALSE
    ELSE IF a[1] = b[1] THEN IsSubseq(Tail(a), Tail(b))
    ELSE IsSubseq(a, Tail(b))

\* C14: in the profile returned, each of experience, skills, education,
\* certifications and languages lists its entries in the order of the
\* document (the lines of its entries are lines of its sections, in their
\* order), and no entry is empty or blank.
C14_SourceOrderNoBlank ==
    pc = "done" =>
        \A key \in {"experience", "skills", "education", "certifications", "languages"} :
            LET entries == extracted_data[key]
            IN  /\ \A k \in 1..Len(entries) : Strip(entries[k]) # ""
                /\ IsSubseq(LinesOf(entries), SectionLines(lines, key))

\* two different experience entries, the first of two lines, and two
\* languages
C14_Witness ==
    /\ pc = "done"
    /\ Len(extracted_data.experience) = 2
    /\ Len(Split(extracted_data.experience[1], "\n")) = 2
    /\ extracted_data.experience[1] # extracted_data.experience[2]
    /\ Len(extracted_data.languages) = 2

\* C19: at every header line met during the walk, a non-empty pending
\* buffer of the experience or the education section is appended to that
\* sequence as one newline-joined entry, and the buffer is reset, whichever
\* header it is.
C19_FlushAtEveryHeader ==
    [][(/\ pc = "walk"
        /\ idx <= Len(lines)
        /\ IsHeader(lines[idx])
        /\ current_section \in {"experience", "education"}
        /\ section_content # <<>>)
          => /\ extracted_data'[current_section] =
                   Append(extracted_data[current_section], Join(section_content, "\n"))
             /\ section_content' = <<>>]_vars

\* C20: at the end of input a non-empty buffer is appended as exactly one
\* newline-joined entry when the section is experience or education, and
\* becomes the whole sequence, one entry per line, when the section is
\* certifications or languages; an empty buffer changes nothing.
C20_EndOfInputFlush ==
    [][(pc = "walk" /\ idx > Len(lines))
          => extracted_data' =
                IF section_content = <<>> THEN extracted_data
                ELSE IF current_section \in {"experience", "education"}
                THEN [extracted_data EXCEPT
                         ![current_section] = Append(@, Join(section_content, "\n"))]
                ELSE IF current_section \in {"certifications", "languages"}
                THEN [extracted_data EXCEPT ![current_section] = section_content]
                ELSE extracted_data]_vars

\* a certifications section of two lines ends the document
C20_Witness ==
    /\ pc = "done"
    /\ current_section = "certifications"
    /\ Len(section_content) = 2
    /\ extracted_data.certifications = section_content
    /\ section_content[1] # section_content[2]

(***************************************************************************)
(* Claims about the tools, checked under Spec.                             *)
(***************************************************************************)
Called(name) == op = name

\* the profile a call was given, when its text parsed as a dict
GivenProfile == arg.extracted_info.v

HasProfile == arg.extracted_info.t = "json" /\ GivenProfile.t = "obj"

\* a value that reports a fault: a text "Error ...", or a JSON object with
\* the key "error"
IsErrorValue(v) ==
    \/ v.t = "str" /\ StartsWith(v.s, "Error ")
    \/ v.t = "json" /\ v.v.t = "obj" /\ "error" \in DOMAIN v.v.o

ErrorMessage(v) == IF v.t = "str" THEN v.s ELSE v.v.o.error.s

\* re.findall of the years of an entry as the claim reads them: the
\* four-digit tokens
RECURSIVE YearTokensFrom(_, _, _)
YearTokensFrom(s, starts, i) ==
    LET rest == {j \in starts : j >= i}
    IN  IF rest = {} THEN <<>>
        ELSE <<ToInt(SubSeq(s, Min(rest), Min(rest) + 3))>>
             \o YearTokensFrom(s, starts, Min(rest) + 4)

YearTokens(s) == YearTokensFrom(s, {i \in 1..Len(s) : YearMatchAt(s, i)}, 1)

RECURSIVE TokenRanges(_)
TokenRanges(entries) ==
    IF entries = <<>> THEN <<>>
    ELSE LET ys == YearTokens(entries[1])
         IN  (IF Len(ys) >= 2 THEN <<<<ys[1], ys[2], ys[2] - ys[1]>>>> ELSE <<>>)
             \o TokenRanges(Tail(entries))

GivenEntries ==
    LET x == Get(GivenProfile, "experience", JL(<<>>))
    IN  [k \in 1..Len(x.l) |-> x.l[k].s]

TwoRangeExample ==
    JsonText(JO([experience |-> JStrings(<<"Engineer, 2018 - 2022", "Analyst, 2015-2017">>)]))

\* C1: for every list of experience entries, calculate_experience_years
\* records for each entry with at least two four-digit year tokens the range
\* (first token, second token, their difference), in entry order, adds each
\* duration to total_years (the agent module adding the "<N> years" phrases
\* as well), and counts the entries; the two entries "Engineer, 2018 - 2022"
\* and "Analyst, 2015-2017" give the ranges (2018,2022,4), (2015,2017,2),
\* total_years 6 and count 2.
C1_RangesFromYearTokens ==
    (Called("calculate_experience_years") /\ ret.t = "report") =>
        LET ranges == TokenRanges(GivenEntries)
            phrases == [k \in 1..Len(GivenEntries) |->
                           Sum(FindDurations(Lower(GivenEntries[k])))]
        IN  /\ ret.result.year_ranges = ranges
            /\ ret.result.experience_count = Len(GivenEntries)
            /\ ret.result.total_years =
                  Sum([k \in 1..Len(ranges) |-> ranges[k][3]])
                  + (IF mod = "agent" THEN Sum(phrases) ELSE 0)
            /\ arg.extracted_info = TwoRangeExample =>
                  /\ ret.result.year_ranges = <<<<2018, 2022, 4>>, <<2015, 2017, 2>>>>
                  /\ ret.result.total_years = 6
                  /\ ret.result.experience_count = 2

\* the skills of a profile that count: lowercased, trimmed, non-empty
UsableSkills(profile) ==
    LET x == Get(profile, "skills", JL(<<>>))
    IN  {Strip(Lower(x.l[k].s)) : k \in {j \in 1..Len(x.l) : Strip(x.l[j].s) # ""}}

Range(seq) == {seq[k] : k \in 1..Len(seq)}

ScoreLine(pct) == \E k \in 1..Len(ret.parts) : Contains(ret.parts[k], "Match Score: " \o pct \o "%")

\* C2: match_job_requirements computes required = the vocabulary terms that
\* occur in the lowercased requirements, matched = the required terms that
\* are a substring of some lowercased, trimmed, non-empty resume skill, and
\* missing = required minus matched; matched and missing are disjoint, list
\* no term twice and together are required; the score shown is
\* |matched| / |required| x 100 with one decimal.
C2_RequiredMatchedMissing ==
    (Called("match_job_requirements") /\ ret.t = "report") =>
        LET r == ret.result
            text == Lower(arg.job_requirements.s)
            required == {t \in Range(common_skills) : Contains(text, t)}
            usable == UsableSkills(GivenProfile)
            matched == {k \in required : \E u \in usable : Contains(u, k)}
        IN  /\ r.job_keywords = required
            /\ Range(r.matched_skills) = matched
            /\ Range(r.missing_skills) = required \ matched
            /\ Range(r.matched_skills) \cap Range(r.missing_skills) = {}
            /\ Len(r.matched_skills) + Len(r.missing_skills) = Cardinality(required)
            /\ required # {} =>
                  ScoreLine(FormatPct(Cardinality(matched), Cardinality(required)))

\* the example of C2: skills python and aws against Python and Docker
C2_Witness ==
    /\ Called("match_job_requirements")
    /\ arg.extracted_info = JsonText(JO([skills |-> JStrings(<<"python", "aws">>)]))
    /\ arg.job_requirements = Str("Looking for Python and Docker experience")
    /\ ret.t = "report"
    /\ ret.result.job_keywords = {"python", "docker"}
    /\ ret.result.matched_skills = <<"python">>
    /\ ret.result.missing_skills = <<"docker">>
    /\ ScoreLine("50.0")

\* a field that is absent or empty
Lacks(d, key) == key \notin DOMAIN d.o \/ d.o[key] \in {JS(""), JL(<<>>), JNull}

\* an empty profile: name, email and summary absent or empty, and
\* experience, skills and education empty or absent
EmptyProfile ==
    /\ HasProfile
    /\ \A key \in {"name", "summary", "experience", "skills", "education"} :
          Lacks(GivenProfile, key)
    /\ \/ "contact" \notin DOMAIN GivenProfile.o
       \/ GivenProfile.o.contact.t = "obj" /\ Lacks(GivenProfile.o.contact, "email")

CriticalTopics ==
    <<"Name is missing", "Email address is missing", "Professional summary is missing",
      "Work experience section is missing", "Skills section is missing",
      "Education section is missing">>

Criticals == SelectSeq(ret.result.suggestions, LAMBDA x : StartsWith(x, Warn))

\* C3: on an empty profile suggest_improvements emits exactly one critical
\* suggestion for each of name, email, summary, experience, skills and
\* education, in that order, and after all suggestions the block of the six
\* best-practice tips, in their order.
C3_EmptyProfileCriticals ==
    (Called("suggest_improvements") /\ EmptyProfile) =>
        /\ ret.t = "report"
        /\ Len(Criticals) = Len(CriticalTopics)
        /\ \A k \in 1..Len(CriticalTopics) : Contains(Criticals[k], CriticalTopics[k])
        /\ Len(BestPractices) = 6
        /\ \E base \in 0..(Len(ret.parts) - 6) :
              /\ \A k \in 1..6 : Contains(ret.parts[base + k], BestPractices[k])
              /\ \A j \in 1..Len(ret.parts) :
                    (\E x \in Range(ret.result.suggestions) : Contains(ret.parts[j], x))
                    => j <= base

\* the dict without keys: six criticals and three tips before the block
C3_Witness ==
    /\ Called("suggest_improvements")
    /\ arg.extracted_info = JsonText(JO(<<>>))
    /\ EmptyProfile
    /\ ret.t = "report"
    /\ Len(Criticals) = 6
    /\ Len(ret.result.suggestions) = 9

\* the faults the operations meet
NotJson == arg.extracted_info.t # "json"

NotObject == arg.extracted_info.t = "json" /\ GivenProfile.t # "obj"

NullContact == HasProfile /\ Get(GivenProfile, "contact", JO(<<>>)) = JNull

NonStringEntries(key) ==
    /\ HasProfile
    /\ Get(GivenProfile, key, JL(<<>>)).t = "list"
    /\ \E x \in Range(Get(GivenProfile, key, JL(<<>>)).l) : x.t # "str"

Faulted ==
    CASE op = "read_resume" -> arg.outcome.exc # ""
      [] op = "extract_information" -> arg.resume_content.t = "pynone"
      [] op = "generate_summary" ->
            NotJson \/ NotObject \/ NullContact
            \/ NonStringEntries("experience") \/ NonStringEntries("skills")
      [] op = "calculate_experience_years" ->
            NotJson \/ NotObject \/ NonStringEntries("experience")
      [] op = "match_job_requirements" ->
            NotJson \/ NotObject \/ NonStringEntries("skills")
            \/ arg.job_requirements.t = "pynone"
      [] op = "suggest_improvements" ->
            NotJson \/ NotObject \/ NullContact \/ NonStringEntries("skills")

\* C4: every operation returns a value for every input and lets no exception
\* reach its caller; extract_information returns a JSON text and the others
\* a text; after a fault (a failing converter, a text that is not JSON, JSON
\* that is no object, a null contact, entries that are no strings) the value
\* returned is an error value of that same kind.
C4_AlwaysReturnsValue ==
    op # "" =>
        /\ ret.t # "raised"
        /\ IF op = "extract_information" THEN ret.t = "json" ELSE ret.t \in {"str", "report"}
        /\ Faulted => IsErrorValue(ret)

\* generate_summary given a profile whose contact is null returns an error text
C4_Witness ==
    /\ Called("generate_summary")
    /\ NullContact
    /\ Faulted
    /\ ret.t = "str"
    /\ IsErrorValue(ret)

NoCertifications == HasProfile /\ Lacks(GivenProfile, "certifications")

\* C7: for every profile whose certifications sequence is empty or absent,
\* generate_summary of either module emits no certifications heading and no
\* certifications line in the insights tally: no part of the report
\* mentions certifications.
C7_NoCertificationsNoHeading ==
    (Called("generate_summary") /\ ret.t = "report" /\ NoCertifications) =>
        \A k \in 1..Len(ret.parts) : ~Contains(Lower(ret.parts[k]), "certification")

\* a profile with education and skills and without certifications: the
\* report has the insights and the education line of the tally
C7_Witness ==
    /\ Called("generate_summary")
    /\ ret.t = "report"
    /\ NoCertifications
    /\ Truthy(Get(GivenProfile, "education", JL(<<>>)))
    /\ \E k \in 1..Len(ret.parts) : Contains(ret.parts[k], "educational qualifications listed")

\* the prefixes of the error values of each operation
ErrorPrefixes ==
    [read_resume |-> {"Error reading resume:"},
     extract_information |-> {"Error extracting information:"},
     generate_summary |-> {"Error generating summary:", "Error parsing extracted data:"},
     calculate_experience_years |-> {"Error calculating experience:"},
     match_job_requirements |-> {"Error matching job requirements:"},
     suggest_improvements |-> {"Error generating suggestions:"}]

\* C10: every error value an operation returns, in either module, begins
\* with a prefix of that operation and with no prefix of another operation.
C10_ErrorPrefixNamesOperation ==
    (op # "" /\ IsErrorValue(ret)) =>
        /\ \E p \in ErrorPrefixes[op] : StartsWith(ErrorMessage(ret), p)
        /\ \A o \in DOMAIN ErrorPrefixes \ {op} :
              \A p \in ErrorPrefixes[o] : ~StartsWith(ErrorMessage(ret), p)

\* the headings of the sections of a summary report: in the markdown report
\* the parts that begin a "## " line, in the plain-text report the parts
\* that are underlined by a rule
IsHeadingAt(k) ==
    IF mod = "tools"
    THEN StartsWith(ret.parts[k], "## ") \/ StartsWith(ret.parts[k], "\n## ")
    ELSE k < Len(ret.parts) /\ ret.parts[k + 1] = Rule

\* the part that follows the heading (and its rule) is a line of content
ContentAfter(k) ==
    IF mod = "tools"
    THEN k + 1 <= Len(ret.parts) /\ ~IsHeadingAt(k + 1)
    ELSE k + 2 <= Len(ret.parts) /\ ret.parts[k + 2] \notin {"", Banner}
                                 /\ ~IsHeadingAt(k + 2)

SectionMark ==
    [summary |-> ":briefcase:", experience |-> ":office:", skills |-> ":tools:",
     education |-> ":cap:", certifications |-> ":scroll:", languages |-> ":globe:"]

\* C11: generate_summary never emits an empty section: every section
\* heading of the report, the personal-information and insights headings
\* included, is followed by at least one line of content, and a section
\* whose source data is empty or absent has no heading.
C11_NoEmptySection ==
    (Called("generate_summary") /\ ret.t = "report") =>
        /\ \A k \in 1..Len(ret.parts) : IsHeadingAt(k) => ContentAfter(k)
        /\ \A key \in DOMAIN SectionMark :
              Lacks(GivenProfile, key) =>
                 \A k \in 1..Len(ret.parts) : ~Contains(ret.parts[k], SectionMark[key])

TierPhrases ==
    [strong |-> "Strong match", good |-> "Good match", acquire |-> "acquiring missing skills"]

\* the tier of the score 100 * k / n (0 when n = 0), lower bounds inclusive
TierOf(k, n) ==
    IF n > 0 /\ 100 * k >= 70 * n THEN "strong"
    ELSE IF n > 0 /\ 100 * k >= 50 * n THEN "good"
    ELSE "acquire"

RecommendationLines ==
    SelectSeq(ret.parts, LAMBDA p : \E t \in DOMAIN TierPhrases : Contains(p, TierPhrases[t]))

\* C12: match_job_requirements emits exactly one recommendation, chosen by
\* the score: strong match from 70 up, good match from 50 up to below 70,
\* acquire missing skills below 50, the score 0 of an empty required set
\* included.
C12_OneRecommendationByTier ==
    (Called("match_job_requirements") /\ ret.t = "report") =>
        LET k == Len(ret.result.matched_skills)
            n == ret.result.total_keywords
        IN  /\ Len(RecommendationLines) = 1
            /\ Contains(RecommendationLines[1], TierPhrases[TierOf(k, n)])
            /\ ret.result.recommendation = TierOf(k, n)

\* seven of ten required terms matched: the score is exactly 70, the
\* recommendation the strong one
C12_Witness ==
    /\ Called("match_job_requirements")
    /\ ret.t = "report"
    /\ ret.result.total_keywords = 10
    /\ Len(ret.result.matched_skills) = 7
    /\ ScoreLine("70.0")
    /\ Len(RecommendationLines) = 1
    /\ Contains(RecommendationLines[1], "Strong match")

\* the position of the first occurrence of k in s, 0 when there is none
Find(s, k) ==
    LET at == {i \in 1..(Len(s) - Len(k) + 1) : SubSeq(s, i, i + Len(k) - 1) = k}
    IN  IF at = {} THEN 0 ELSE Min(at)

\* the text of s between the first a and the next b
Between(s, a, b) ==
    LET rest == Slice(s, Find(s, a) + Len(a), Len(s))
    IN  Slice(rest, 1, Find(rest, b) - 1)

\* the score a match report shows, as text, and in tenths of a percent
ScoreText ==
    LET at == {k \in 1..Len(ret.parts) : Contains(ret.parts[k], "Match Score: ")}
    IN  Between(ret.parts[Min(at)], "Match Score: ", "%")

Tenths(text) ==
    ToInt(Between("^" \o text, "^", ".")) * 10 + ToInt(Between(text \o "$", ".", "$"))

\* a profile (a dict whose skills, when present, is a list of strings) and
\* a requirements text
MatchInputWellFormed ==
    /\ HasProfile
    /\ Get(GivenProfile, "skills", JL(<<>>)).t = "list"
    /\ ~NonStringEntries("skills")
    /\ arg.job_requirements.t = "str"

\* C13: for every profile and requirements text match_job_requirements
\* returns a report whose score lies between 0 and 100, and the score is 0
\* (no division by zero, no error value) when no vocabulary term occurs in
\* the requirements.
C13_ScoreRange ==
    (Called("match_job_requirements") /\ MatchInputWellFormed) =>
        /\ ret.t = "report"
        /\ Tenths(ScoreText) >= 0
        /\ Tenths(ScoreText) <= 1000
        /\ (\A k \in 1..Len(common_skills) :
                ~Contains(Lower(arg.job_requirements.s), common_skills[k]))
              => ScoreText = "0.0"

\* requirements without a vocabulary term, against a profile with skills
C13_Witness ==
    /\ Called("match_job_requirements")
    /\ MatchInputWellFormed
    /\ arg.job_requirements = Str("")
    /\ NonBlank(Get(GivenProfile, "skills", JL(<<>>))) # <<>>
    /\ ret.t = "report"
    /\ ret.result.total_keywords = 0
    /\ ScoreText = "0.0"

\* C15: the total_years reported by calculate_experience_years is an
\* integer greater than or equal to 0, for every list of experience
\* entries.
C15_TotalYearsNotNegative ==
    (Called("calculate_experience_years") /\ ret.t = "report") =>
        ret.result.total_years \in Nat

\* the non-blank entries of a sequence of the profile, as texts
NonBlankTexts(key) ==
    LET x == Get(GivenProfile, key, JL(<<>>))
        texts == [k \in 1..Len(x.l) |-> x.l[k].s]
    IN  SelectSeq(texts, LAMBDA t : Strip(t) # "")

\* the part of a summary report that follows the heading marked by mark
PartsAfter(mark) ==
    LET at == Min({k \in 1..Len(ret.parts) : Contains(ret.parts[k], mark)})
        from == IF mod = "tools" THEN at + 1 ELSE at + 2
    IN  SubSeq(ret.parts, from, Len(ret.parts))

\* C16: the skills line of generate_summary is the first min(20, k) of the
\* k non-blank skills of the profile, in profile order, joined by ", ",
\* and shows no skill beyond the 20th.
C16_SkillsLineCapped ==
    (Called("generate_summary") /\ ret.t = "report" /\ NonBlankTexts("skills") # <<>>) =>
        LET skills == NonBlankTexts("skills")
            shown == SubSeq(skills, 1, IF Len(skills) < 20 THEN Len(skills) ELSE 20)
            line == PartsAfter(":tools:")[1]
        IN  /\ line = Join(shown, ", ") \o (IF mod = "tools" THEN "\n" ELSE "")
            /\ \A j \in 21..Len(skills) : ~Contains(line, skills[j])

\* a profile of 22 skills: the line ends with the 20th
C16_Witness ==
    /\ Called("generate_summary")
    /\ ret.t = "report"
    /\ Len(NonBlankTexts("skills")) = 22
    /\ Contains(PartsAfter(":tools:")[1], NonBlankTexts("skills")[20])
    /\ ~Contains(PartsAfter(":tools:")[1], NonBlankTexts("skills")[21])

\* the lines of the tally a profile calls for, in order
ExpectedTally ==
    LET Line(key, what) ==
            IF Lacks(GivenProfile, key) THEN <<>>
            ELSE <<ToString(Len(NonBlankTexts(key))) \o what>>
    IN  Line("experience", " work experience entries documented")
        \o Line("skills", " skills identified")
        \o Line("education", " educational qualifications listed")
        \o Line("certifications", " certifications obtained")

\* C17: generate_summary ends the report with the insights tally: after
\* the insights heading come, for each of experience, skills, education and
\* certifications that is non-empty, one line with the count of its
\* non-blank entries (the full count, beyond the 20 skills shown), then
\* nothing but the closing of the report; no section follows.
C17_InsightsTallyLast ==
    (Called("generate_summary") /\ ret.t = "report") =>
        LET at == Min({j \in 1..Len(ret.parts) : Contains(ret.parts[j], ":bulb:")})
            after == SubSeq(ret.parts, IF mod = "tools" THEN at + 1 ELSE at + 2,
                            Len(ret.parts))
            tally == IF mod = "tools" THEN after ELSE SubSeq(after, 1, Len(after) - 2)
            bullet == IF mod = "tools" THEN "- " ELSE "* "
            end == IF mod = "tools" THEN "\n" ELSE ""
            expected == ExpectedTally
        IN  /\ tally = [k \in 1..Len(expected) |-> bullet \o expected[k] \o end]
            /\ mod = "agent" => SubSeq(after, Len(after) - 1, Len(after)) = <<"", Banner>>
            /\ \A k \in (at + 1)..Len(ret.parts) : ~IsHeadingAt(k)

\* 22 skills, of which 20 are shown: the tally counts 22
C17_Witness ==
    /\ Called("generate_summary")
    /\ ret.t = "report"
    /\ Len(NonBlankTexts("skills")) = 22
    /\ Len(ExpectedTally) = 4
    /\ \E k \in 1..Len(ret.parts) : Contains(ret.parts[k], "22 skills identified")

\* the order of the characters of the vocabulary terms
Alphabet == " /abcdefghijklmnopqrstuvwxyz"

RECURSIVE AlphaLeq(_, _)
AlphaLeq(a, b) ==
    IF a = "" THEN TRUE
    ELSE IF b = "" THEN FALSE
    ELSE IF CharAt(a, 1) = CharAt(b, 1)
         THEN AlphaLeq(Slice(a, 2, Len(a)), Slice(b, 2, Len(b)))
    ELSE IndexIn(CharAt(a, 1), Alphabet) < IndexIn(CharAt(b, 1), Alphabet)

Alphabetical(seq) == \A k \in 1..(Len(seq) - 1) : AlphaLeq(seq[k], seq[k + 1])

\* C18: the matching and the missing skills of a match report are listed
\* in alphabetical order, whatever the order in which the set of keywords
\* is iterated.
C18_SkillListsAlphabetical ==
    (Called("match_job_requirements") /\ ret.t = "report") =>
        /\ Alphabetical(ret.result.matched_skills)
        /\ Alphabetical(ret.result.missing_skills)

(***************************************************************************)
(* Further claims about extract_information, checked under ExtractSpec.    *)
(***************************************************************************)
\* the trimmed lines of a document that are not blank, in order
NonEmptyLines(ls) ==
    LET at == Ascending({i \in 1..Len(ls) : Strip(ls[i]) # ""})
    IN  [k \in 1..Len(at) |-> Strip(ls[at[k]])]

\* the first of the lines that is shorter than 50 characters and holds no
\* digit, no '@' and no "http" in any case; "" when there is none
FirstNameLike(ls) ==
    LET ok == {k \in 1..Len(ls) : NameCandidate(ls[k])}
    IN  IF ok = {} THEN "" ELSE ls[Min(ok)]

\* C21: name is the first line, among the first 5 non-empty lines of the
\* document (blank lines not counted), that is under 50 characters and
\* holds no digit, no '@' and no "http"; it is empty when none of those 5
\* lines qualifies.
C21_NameAmongFirstNonEmptyLines ==
    pc = "done" =>
        LET nonempty == NonEmptyLines(lines)
            head == SubSeq(nonempty, 1, Min({NameScanLines, Len(nonempty)}))
        IN  extracted_data.name = FirstNameLike(head)

\* the categories in the order in which their keywords are tried
CategoryOrder ==
    <<"experience", "education", "skills", "summary", "certifications", "languages">>

CategoryKeywords ==
    [experience |-> ExperienceKeywords, education |-> EducationKeywords,
     skills |-> SkillsKeywords, summary |-> SummaryKeywords,
     certifications |-> CertificationKeywords, languages |-> LanguagesKeywords]

\* the positions in CategoryOrder of the categories one of whose keywords
\* the lowercased trimmed line contains
Declared(line) ==
    {k \in 1..Len(CategoryOrder) :
        AnyKeyword(Strip(Lower(line)), CategoryKeywords[CategoryOrder[k]])}

\* C22: a line that holds keywords of more than one category is taken as
\* the header of exactly one section, the first category in the order
\* experience, education, skills, summary, certifications, languages one of
\* whose keywords it contains; the line opens that section with an empty
\* buffer and is not stored.
C22_FirstCategoryWins ==
    (pc = "walk" /\ idx > 1) =>
        LET declared == Declared(lines[idx - 1])
        IN  Cardinality(declared) > 1 =>
                /\ current_section = CategoryOrder[Min(declared)]
                /\ section_content = <<>>

\* a line that names the skills before the experience has been taken as
\* an experience header, and a line of education and summary keywords as
\* an education header
C22_Witness ==
    /\ pc = "walk"
    /\ idx > 3
    /\ Declared(lines[idx - 1]) = {2, 4}
    /\ current_section = "education"
    /\ \E j \in 1..(idx - 2) :
          /\ Declared(lines[j]) = {1, 3}
          /\ StartsWith(Lower(lines[j]), "technical skills")

\* the section of the last header line of a document, "" without header
LastHeader(ls) ==
    LET hs == {j \in 1..Len(ls) : IsHeader(ls[j])}
    IN  IF hs = {} THEN "" ELSE Classify(ls[Max(hs)])

\* the trimmed non-blank lines after the last header line
LinesAfterLastHeader(ls) ==
    LET hs == {j \in 1..Len(ls) : IsHeader(ls[j])}
        at == Ascending({i \in 1..Len(ls) : i > Max(hs \cup {0}) /\ Strip(ls[i]) # ""})
    IN  [k \in 1..Len(at) |-> Strip(ls[at[k]])]

\* C26: in the profile returned, certifications is non-empty only if the
\* last header of the document is a certifications header, and languages
\* only if it is a languages header; each then holds only the lines after
\* that last header (the lines of a certifications or languages section
\* followed by a later header are discarded), so the two are never both
\* non-empty.
C26_ListsOnlyFromLastSection ==
    pc = "done" =>
        LET last == LastHeader(lines)
            tail == LinesAfterLastHeader(lines)
        IN  /\ \A key \in {"certifications", "languages"} :
                  extracted_data[key] = IF last = key THEN tail ELSE <<>>
            /\ extracted_data.certifications = <<>> \/ extracted_data.languages = <<>>

\* a certifications section with a line of content was followed by a
\* languages section that ends the document: only the languages are kept
C26_Witness ==
    /\ pc = "done"
    /\ SectionLines(lines, "certifications") # <<>>
    /\ extracted_data.certifications = <<>>
    /\ Len(extracted_data.languages) = 2

\* C27: in the profile returned, no line of any entry of experience,
\* education, skills, certifications or languages contains a section
\* keyword in any case: a line with a keyword is taken as a header, also
\* in the middle of a section, and is never stored.
C27_NoKeywordStored ==
    pc = "done" =>
        \A key \in {"experience", "education", "skills", "certifications", "languages"} :
            LET stored == LinesOf(extracted_data[key])
            IN  \A k \in 1..Len(stored) : Declared(stored[k]) = {}

\* a keyword line lay between two content lines of one experience section
\* and split it into two entries, neither of which holds the keyword line
C27_Witness ==
    /\ pc = "done"
    /\ \E i \in 2..(Len(lines) - 1) :
          /\ Declared(lines[i]) = {1}
          /\ SectionOf(lines, i) = "experience"
          /\ Classify(lines[i - 1]) = "content"
          /\ Classify(lines[i + 1]) = "content"
          /\ Strip(lines[i - 1]) \in Range(LinesOf(extracted_data.experience))
          /\ Strip(lines[i + 1]) \in Range(LinesOf(extracted_data.experience))
    /\ Len(extracted_data.experience) = 2

(***************************************************************************)
(* Further claims about the tools, checked under Spec.                     *)
(***************************************************************************)
\* a dict whose fields have the types of a profile
WellTyped(d) ==
    /\ d.t = "obj"
    /\ \A key \in DOMAIN d.o :
          LET v == d.o[key]
          IN  CASE key \in {"name", "summary"} -> v.t = "str"
                [] key = "contact" ->
                      v.t = "obj" /\ \A f \in DOMAIN v.o : v.o[f].t = "str"
                [] key \in {"experience", "skills", "education", "certifications",
                            "languages"} ->
                      v.t = "list" /\ \A k \in 1..Len(v.l) : v.l[k].t = "str"
                [] OTHER -> TRUE

\* the suggestion a rule emits for the profile given: its mark and a
\* phrase of its text; critical for an absent or empty field, minor for a
\* short one, none otherwise
Fired(critical, minor, topics) ==
    IF critical THEN <<[mark |-> Warn, topic |-> topics[1]]>>
    ELSE IF minor THEN <<[mark |-> Tip, topic |-> topics[2]]>>
    ELSE <<>>

\* the suggestions the nine rules call for, in the order name, email,
\* phone, linkedin, summary, experience, skills, education, certifications
ExpectedSuggestions ==
    LET d == GivenProfile
        c == IF "contact" \in DOMAIN d.o THEN d.o.contact ELSE JO(<<>>)
        summary == IF "summary" \in DOMAIN d.o THEN d.o.summary.s ELSE ""
        experience == IF "experience" \in DOMAIN d.o THEN d.o.experience.l ELSE <<>>
        skills == NonBlankTexts("skills")
    IN  Fired(Lacks(d, "name"), FALSE, <<"Name is missing", "">>)
        \o Fired(Lacks(c, "email"), FALSE, <<"Email address is missing", "">>)
        \o Fired(FALSE, Lacks(c, "phone"), <<"", "adding a phone number">>)
        \o Fired(FALSE, Lacks(c, "linkedin"), <<"", "Add your LinkedIn profile">>)
        \o Fired(summary = "", Len(summary) < 100,
                <<"Professional summary is missing", "professional summary is brief">>)
        \o Fired(experience = <<>>, Len(experience) < 2,
                <<"Work experience section is missing", "more detailed work experience">>)
        \o Fired(skills = <<>>, Len(skills) < 5,
                <<"Skills section is missing", "Add more relevant skills">>)
        \o Fired(Lacks(d, "education"), FALSE, <<"Education section is missing", "">>)
        \o Fired(FALSE, Lacks(d, "certifications"), <<"", "adding relevant certifications">>)

\* the lines of a suggestions report that carry a suggestion
SuggestionLines ==
    {k \in 1..Len(ret.parts) : Contains(ret.parts[k], Warn) \/ Contains(ret.parts[k], Tip)}

\* C23: for every profile the suggestions of suggest_improvements are
\* exactly those of the rules that fire, in the order name, email, phone,
\* linkedin, summary, experience, skills, education, certifications, each
\* rule judged on its own field; summary, experience and skills get the
\* critical or the minor suggestion, never both; the six best-practice tips
\* follow the suggestions whatever the profile.
C23_SuggestionsAreFiredRules ==
    (Called("suggest_improvements") /\ HasProfile /\ WellTyped(GivenProfile)) =>
        LET expected == ExpectedSuggestions
            at == Ascending(SuggestionLines)
            last == Max(SuggestionLines \cup {0})
            tips == {k \in 1..Len(ret.parts) :
                        \E j \in 1..6 : Contains(ret.parts[k], BestPractices[j])}
        IN  /\ ret.t = "report"
            /\ Len(at) = Len(expected)
            /\ \A k \in 1..Len(expected) :
                  /\ Contains(ret.parts[at[k]], expected[k].mark)
                  /\ Contains(ret.parts[at[k]], expected[k].topic)
            /\ Cardinality(tips) = 6
            /\ \A j \in 1..6 :
                  Contains(ret.parts[Ascending(tips)[j]], BestPractices[j])
            /\ \A k \in tips : k > last

\* a profile with name, contact, education and certifications, a blank
\* summary, one experience entry and four non-blank skills out of six: the
\* suggestions are the phone tip and the three minor ones
C23_Witness ==
    /\ Called("suggest_improvements")
    /\ HasProfile
    /\ WellTyped(GivenProfile)
    /\ ret.t = "report"
    /\ Len(Get(GivenProfile, "skills", JL(<<>>)).l) = 6
    /\ Len(ExpectedSuggestions) = 4
    /\ \A k \in 1..4 : ExpectedSuggestions[k].mark = Tip
    /\ Cardinality(SuggestionLines) = 4

\* the numbers N of the phrases "<N> year(s)" of an entry ("yr" and "yrs"
\* counted as year and years), in any case and with or without blanks
\* after the number, in order
PhraseNumbers(entry) ==
    LET s == Lower(entry)
        starts == {i \in 1..Len(s) :
                      /\ IsDigit(CharAt(s, i))
                      /\ ~IsDigit(CharAt(s, i - 1))
                      /\ LET r == RunEnd(s, i, DigitSet)
                             w == RunEnd(s, r + 1, WhitespaceSet)
                         IN  \/ Slice(s, w + 1, w + 4) = "year"
                             \/ Slice(s, w + 1, w + 2) = "yr"}
        at == Ascending(starts)
    IN  [k \in 1..Len(at) |-> ToInt(SubSeq(s, at[k], RunEnd(s, at[k], DigitSet)))]

\* C24: in both modules calculate_experience_years adds to total_years,
\* for every entry, the number N of each phrase "<N> year(s)" of the entry
\* on top of the duration of the entry's year range, so that the two
\* modules report the same total_years for the same entries.
C24_YearPhrasesAdded ==
    (Called("calculate_experience_years") /\ ret.t = "report") =>
        LET entries == GivenEntries
            ranges == ret.result.year_ranges
        IN  ret.result.total_years =
                Sum([k \in 1..Len(ranges) |-> ranges[k][3]])
                + Sum([k \in 1..Len(entries) |-> Sum(PhraseNumbers(entries[k]))])

\* C25: an error value of one stage is detected by the stage that takes it:
\* extract_information given the "Error reading resume:" text of a failed
\* read_resume returns an error result, and generate_summary,
\* calculate_experience_years, match_job_requirements and
\* suggest_improvements given the error value of a failed
\* extract_information return an error report, never a profile or a report
\* of the usual form.
C25_UpstreamErrorDetected ==
    /\ (/\ Called("extract_information")
        /\ arg.resume_content.t = "str"
        /\ StartsWith(arg.resume_content.s, "Error reading resume:"))
          => IsErrorValue(ret)
    /\ (/\ op \in {"generate_summary", "calculate_experience_years",
                   "match_job_requirements", "suggest_improvements"}
        /\ arg.extracted_info.t = "json"
        /\ IsErrorValue(arg.extracted_info))
          => IsErrorValue(ret)

(***************************************************************************)
(* Claims about the Streamlit app, checked under AppSpec.                  *)
(***************************************************************************)
Stored(key) == key \in DOMAIN session_state

\* C28: over any sequence of uploads and Analyze clicks,
\* session_state['analysis_result'] and session_state['file_name'] are
\* written only together and only after run_analysis has returned; when
\* run_analysis raises both keep their values; the stored file_name is
\* always the name of the upload whose analysis produced the stored result.
C28_ResultAndNameTogether ==
    /\ [](/\ Stored("analysis_result") <=> Stored("file_name")
          /\ Stored("analysis_result") =>
                /\ session_state.analysis_result.run \in 1..Len(analysed)
                /\ session_state.file_name = analysed[session_state.analysis_result.run])
    /\ [][/\ session_state' # session_state =>
                /\ step = "store"
                /\ result.run = Len(analysed)
                /\ session_state'.analysis_result = result
                /\ session_state'.file_name = uploaded_file.name
          /\ step \in {"try", "except"} => session_state' = session_state]_vars

\* the first analysis was stored; then another file was uploaded and its
\* analysis raised: the result and the name of the first are still there
C28_Witness ==
    /\ step = "idle"
    /\ Len(analysed) = 2
    /\ analysed[1] # analysed[2]
    /\ Stored("analysis_result")
    /\ session_state.analysis_result.run = 1
    /\ session_state.file_name = analysed[1]
    /\ uploaded_file = UploadedFile(analysed[2])
    /\ displayed.file_name = analysed[1]

\* C29: once an Analyze action has written the upload to a temporary path,
\* the temporary file no longer exists when the action ends, whether
\* run_analysis returned a result or raised: the file exists while the
\* handler runs and no temporary file is left when the script run is over.
C29_TempFileRemoved ==
    /\ step \in {"try", "store", "except", "finally"} => files = {tmp_path}
    /\ step \in {"render", "idle"} => files = {}

\* two Analyze actions have ended, one whose analysis was stored and one
\* whose analysis raised, and the temporary files of both are gone
C29_Witness ==
    /\ step = "idle"
    /\ Len(analysed) = 2
    /\ tmp_path # ""
    /\ tmp_path \notin files
    /\ Stored("analysis_result")
    /\ session_state.analysis_result.run = 1

====
